---- MODULE Spec2Model ----
(***************************************************************************)
(* Verification model of the StandLog analytics script.                    *)
(*                                                                         *)
(*   FunnelAnalyzer     js/modules/funnels/funnel.js    (SpecFunnel)       *)
(*   StandLogAnalytics  main script, delivery queue     (SpecAnalytics)    *)
(*   StandLogTracker    js/modules/tracking/core.js     (SpecTracker)      *)
(*                                                                         *)
(* Strings of the program that are searched (urls, url patterns) are       *)
(* sequences of one-character strings; all other strings are atoms.        *)
(***************************************************************************)
EXTENDS Integers, Sequences, FiniteSets, TLC

\* ------------------------------------------------------------------ bounds
\* number of addEvent calls made on the FunnelAnalyzer
MaxEvents == 4
\* number of times the wall clock is seen to advance
MaxTicks == 1
\* number of addEvent calls in a log that is replayed
MaxReplayEvents == 3

\* ------------------------------------------------------------ JS values
\* undefined, for a value that is otherwise an atom
Undefined == "undefined"
\* the empty string or a missing string, for a value that is otherwise a
\* sequence of characters: the code tests both with "if (value)"
NoStr == <<>>
\* a missing object, for a value that is otherwise <<object>>
NoObj == <<>>
\* the null that localStorage.getItem returns for a missing key
NoItem == "null"

\* identifiers produced by generateSessionId / getAnonymousId / getUserId
LocalSessionId == "session_local"
AnonymousId == "user_anon"
VisitorId == "user_visitor"

\* milliseconds by which the wall clock is seen to advance between two reads
TickMs == 1800000

VARIABLES
  \* ---- FunnelAnalyzer
  events,        \* this.events: every event given to addEvent, in order
  funnelData,    \* this.funnelData: funnel id -> [sessions, stats]
  lastCalls,     \* processStepCompletion calls made by the last addEvent
  lsSession,     \* localStorage["standlog_session"]
  lsUser,        \* localStorage["standlog_user"]
  now,           \* Date.now()
  \* ---- StandLogAnalytics (main script)
  sessionData,   \* this.sessionData: sessionId, userId, anonymousId
  sessionCreated,\* this.sessionCreated
  a_events,      \* this.events: the buffer of captured events
  a_flushes,     \* the sendEvents calls made so far, each with its position
  a_net,         \* the requests issued, in order, each with its outcome
  a_captured,    \* number of events captured since construction
  a_unloads,     \* number of beforeunload signals seen
  \* ---- StandLogTracker (tracking/core.js)
  t_events,      \* this.events: the buffer of captured events
  t_flushes,     \* the sendEvents calls made so far, each with its position
  t_net,         \* the requests issued, in order, each with its outcome
  t_captured,    \* number of events captured since construction
  t_signals,     \* number of interval, click, submit and beforeunload signals
  dom,           \* the elements of the page the tracker listens on
  \* ---- the global API of the main script
  scriptKey,     \* data-standlog-id of the script tag, null when absent
  loaded,        \* has DOMContentLoaded fired
  standlog,      \* window.standlog: the tracker constructed, if any
  modules,       \* names of the modules in this.modules
  listeners,     \* kinds of the listeners attached to document and window
  m_funnels,     \* this.modules.funnels.funnels: funnel id -> funnel
  stack,         \* frames of the defineFunnel call under way
  api_log,       \* what the calls of the host page returned, in order
  api_signals,   \* number of clicks made on the page
  \* ---- PersonaAnalyzer (personas/personas.js)
  users,         \* this.users: user id -> profile
  segments,      \* this.segments: persona id -> [users, metrics]
  p_ingests,     \* number of addUserEvent calls made outside the opening run
  p_opening,     \* number of events of the opening run made so far
  p_last,        \* the last call: user, event type, personas before
  \* ---- FunnelAnalyzer with a funnel made of any steps
  matcher,       \* the analyzer: funnels, funnel data, events, last addEvent
  \* ---- the signals of the page (setupTracking of the main script)
  signals,       \* the signals so far, the scroll timer, event id -> signal
  \* ---- the storage of the tab and the initialisations of the main script
  identity       \* sessionStorage item, storage mode, ids generated, inits

funnelVars == <<events, funnelData, lastCalls, now>>

storageVars == <<lsSession, lsUser>>

analyticsVars == <<sessionData, sessionCreated, a_events, a_flushes, a_net,
                   a_captured, a_unloads>>

trackerVars == <<t_events, t_flushes, t_net, t_captured, t_signals, dom>>

personaVars == <<users, segments, p_ingests, p_opening, p_last>>

\* the variables of the parts that the actions of the other parts leave alone
elseVars == <<matcher, identity>>

apiVars == <<scriptKey, loaded, standlog, modules, listeners, m_funnels, stack,
             api_log>>

vars == <<events, funnelData, lastCalls, lsSession, lsUser, now,
          sessionData, sessionCreated, a_events, a_flushes, a_net,
          a_captured, a_unloads,
          t_events, t_flushes, t_net, t_captured, t_signals, dom,
          scriptKey, loaded, standlog, modules, listeners, m_funnels, stack,
          api_log, api_signals,
          users, segments, p_ingests, p_opening, p_last,
          matcher, signals, identity>>

\* ------------------------------------------------------------- strings
RECURSIVE StartsWithAt(_, _, _)
\* does pat occur in str at position i (1-based)
StartsWithAt(str, pat, i) ==
  /\ i + Len(pat) - 1 <= Len(str)
  /\ \A j \in 1..Len(pat) : str[i + j - 1] = pat[j]

\* String.prototype.includes
Includes(str, pat) ==
  \E i \in 1..(Len(str) + 1) : StartsWithAt(str, pat, i)

\* the url strings that occur in the model
UrlRoot == <<"/">>
UrlSignup == <<"/", "s", "i", "g", "n", "u", "p">>

\* ------------------------------------------------------------- funnels
\* steps of the "signup" funnel of the README (Programmatic Usage), first
\* three steps
SignupSteps ==
  << [id |-> "landing", url |-> UrlRoot, event |-> Undefined, selector |-> NoStr],
     [id |-> "form", url |-> UrlSignup, event |-> Undefined, selector |-> NoStr],
     [id |-> "verify", url |-> NoStr, event |-> "email_verified", selector |-> NoStr] >>

\* a funnel whose last step is a click on an element
ButtonSteps ==
  << [id |-> "landing", url |-> UrlRoot, event |-> Undefined, selector |-> NoStr],
     [id |-> "verify", url |-> NoStr, event |-> "email_verified", selector |-> NoStr],
     [id |-> "cta", url |-> NoStr, event |-> Undefined, selector |-> <<"#", "c", "t", "a">>] >>

DefaultTimeWindow == 3600000

\* a timeWindow given in the options of a funnel: ten minutes
ShortTimeWindow == 600000

\* defineFunnel(funnelId, steps, options); an option that is not given is 0
\* (timeWindow) or FALSE (allowBacktrack), which "||" replaces by the default
defineFunnel(funnelId, steps, options) ==
  [ id |-> funnelId,
    steps |-> [i \in 1..Len(steps) |-> [id |-> steps[i].id,
                                        url |-> steps[i].url,
                                        event |-> steps[i].event,
                                        selector |-> steps[i].selector,
                                        order |-> i - 1]],
    options |-> [timeWindow |-> IF options.timeWindow = 0
                                THEN DefaultTimeWindow ELSE options.timeWindow,
                 allowBacktrack |-> options.allowBacktrack] ]

\* this.config.funnels after the defineFunnel calls made at start-up
Funnels ==
  << defineFunnel("signup", SignupSteps,
                  [timeWindow |-> 0, allowBacktrack |-> FALSE]),
     defineFunnel("signup_bt", SignupSteps,
                  [timeWindow |-> 0, allowBacktrack |-> TRUE]),
     defineFunnel("button_bt", ButtonSteps,
                  [timeWindow |-> ShortTimeWindow, allowBacktrack |-> TRUE]) >>

FunnelIds == {Funnels[i].id : i \in 1..Len(Funnels)}

FunnelById(fid) == CHOOSE f \in {Funnels[i] : i \in 1..Len(Funnels)} : f.id = fid

\* a rate (a / b) * 100 is kept as the pair <<a, b>>
Rate(a, b) == <<a, b>>
ZeroRate == <<0, 1>>

\* initializeFunnelStats(stepCount)
initializeFunnelStats(stepCount) ==
  [ totalSessions |-> 0,
    completedSessions |-> 0,
    conversionRate |-> ZeroRate,
    steps |-> [i \in 1..stepCount |-> [stepIndex |-> i - 1,
                                       reached |-> 0,
                                       conversionFromPrevious |-> ZeroRate]] ]

\* --------------------------------------------------- matching predicates
\* String.prototype.toLowerCase, on the letters that occur in the model
LowerChar(c) ==
  CASE c = "B" -> "b" [] c = "U" -> "u" [] c = "T" -> "t" [] c = "O" -> "o"
    [] c = "N" -> "n" [] c = "I" -> "i" [] c = "P" -> "p" [] c = "F" -> "f"
    [] c = "R" -> "r" [] c = "M" -> "m" [] OTHER -> c

toLowerCase(s) == [i \in 1..Len(s) |-> LowerChar(s[i])]

\* String.prototype.replace(ch, ""): removes the first occurrence of ch
RECURSIVE replaceFirst(_, _)
replaceFirst(s, ch) ==
  IF s = <<>> THEN <<>>
  ELSE IF Head(s) = ch THEN Tail(s)
  ELSE <<Head(s)>> \o replaceFirst(Tail(s), ch)

\* stepUrl.replace(/\*/g, ".*") followed by RegExp matching at the start of
\* str: "*" stands for ".*", "." for any character, other characters for
\* themselves
RECURSIVE MatchHere(_, _)
MatchHere(pat, str) ==
  IF pat = <<>> THEN TRUE
  ELSE IF Head(pat) = "*"
    THEN \E k \in 0..Len(str) : MatchHere(Tail(pat), SubSeq(str, k + 1, Len(str)))
  ELSE /\ str # <<>>
       /\ (Head(pat) = "." \/ Head(pat) = Head(str))
       /\ MatchHere(Tail(pat), Tail(str))

\* new RegExp(pattern).test(str): an unanchored search
RegExpTest(pat, str) ==
  \E k \in 0..Len(str) : MatchHere(pat, SubSeq(str, k + 1, Len(str)))

\* urlMatches(eventUrl, stepUrl)
urlMatches(eventUrl, stepUrl) ==
  IF Includes(stepUrl, <<"*">>)
  THEN RegExpTest(stepUrl, eventUrl)
  ELSE Includes(eventUrl, stepUrl)

\* elementMatchesSelector(element, selector): a missing element makes the
\* property reads throw, which the catch turns into false
elementMatchesSelector(element, selector) ==
  IF element = NoObj THEN FALSE
  ELSE \/ element[1].id = replaceFirst(selector, "#")
       \/ Includes(element[1].className, replaceFirst(selector, "."))
       \/ toLowerCase(element[1].tagName) = toLowerCase(selector)

\* eventMatchesStep(event, step)
eventMatchesStep(event, step) ==
  IF step.url # NoStr /\ event.type = "pageview" /\ event.url # NoStr
  THEN urlMatches(event.url, step.url)
  ELSE IF step.event # Undefined
          /\ (\/ (event.type = "custom" /\ event.name = step.event)
              \/ event.type = step.event)
  THEN TRUE
  ELSE IF step.selector # NoStr /\ event.type = "click"
  THEN elementMatchesSelector(event.element, step.selector)
  ELSE FALSE

\* ------------------------------------------------------ step processing
\* updateFunnelStats(funnelId, session, stepIndex), on the funnel's stats
updateFunnelStats(stats, stepCount, stepIndex) ==
  LET i == stepIndex + 1
      reached1 == stats.steps[i].reached + 1
      conv1 == IF stepIndex > 0
               THEN Rate(reached1, stats.steps[i - 1].reached)
               ELSE stats.steps[i].conversionFromPrevious
      steps1 == [stats.steps EXCEPT ![i] = [@ EXCEPT !.reached = reached1,
                                                     !.conversionFromPrevious = conv1]]
      total1 == IF stepIndex = 0 THEN stats.totalSessions + 1
                ELSE stats.totalSessions
      last == stepIndex = stepCount - 1
      completed1 == IF last THEN stats.completedSessions + 1
                    ELSE stats.completedSessions
  IN [ totalSessions |-> total1,
       completedSessions |-> completed1,
       conversionRate |-> IF last THEN Rate(completed1, total1)
                          ELSE stats.conversionRate,
       steps |-> steps1 ]

\* the test "stepIndex === expectedStep" of processStepCompletion
IsExpectedStep_skip(stepIndex, expectedStep) == stepIndex >= expectedStep

IsExpectedStep(stepIndex, expectedStep) == stepIndex = expectedStep

\* the test "funnel.options.allowBacktrack && stepIndex < expectedStep" of
\* processStepCompletion
IsBacktrack_always(funnel, stepIndex, expectedStep) == stepIndex < expectedStep

IsBacktrack(funnel, stepIndex, expectedStep) ==
  funnel.options.allowBacktrack /\ stepIndex < expectedStep

\* the backtrack branch of processStepCompletion, on the session
BacktrackTo_forget(session, stepIndex) ==
  [session EXCEPT !.currentStep = stepIndex,
                  !.completedSteps = SubSeq(@, 1, stepIndex + 1)]

BacktrackTo(session, stepIndex) == [session EXCEPT !.currentStep = stepIndex]

\* the record of one processStepCompletion call: its arguments, and the
\* session and the funnel's stats as the call found and left them
CallRecord(funnel, stepIndex, st0, st1) ==
  [ funnelId |-> funnel.id, sessionId |-> st0.session.sessionId,
    stepIndex |-> stepIndex,
    before |-> st0.session.currentStep, after |-> st1.session.currentStep,
    session0 |-> st0.session, session1 |-> st1.session,
    stats0 |-> st0.stats, stats1 |-> st1.stats ]

\* processStepCompletion(funnel, session, stepIndex, event); st carries the
\* session, the funnel's stats, the record of the calls made for this event
\* and the standlog_funnel_complete events dispatched
processStepCompletion(funnel, st, stepIndex, event) ==
  LET session == st.session
      expectedStep == session.currentStep + 1
      done(st1) == [st1 EXCEPT !.calls =
                      Append(@, CallRecord(funnel, stepIndex, st, st1))]
  IN IF IsExpectedStep(stepIndex, expectedStep)
     THEN LET last == stepIndex = Len(funnel.steps) - 1
              session1 == [session EXCEPT
                             !.currentStep = stepIndex,
                             !.completedSteps = Append(@, [stepIndex |-> stepIndex,
                                                           timestamp |-> event.timestamp]),
                             !.status = IF last THEN "completed" ELSE @]
          IN done([ session |-> session1,
                    stats |-> updateFunnelStats(st.stats, Len(funnel.steps),
                                                stepIndex),
                    calls |-> st.calls,
                    completions |-> IF last THEN st.completions + 1
                                    ELSE st.completions ])
     ELSE IF IsBacktrack(funnel, stepIndex, expectedStep)
     THEN done([st EXCEPT !.session = BacktrackTo(session, stepIndex)])
     ELSE done(st)

\* funnel.steps.forEach(...) of checkFunnelStep, from step index i on
RECURSIVE ForEachStep(_, _, _, _)
ForEachStep(funnel, st, i, event) ==
  IF i > Len(funnel.steps) THEN st
  ELSE ForEachStep(funnel,
                   IF eventMatchesStep(event, funnel.steps[i])
                   THEN processStepCompletion(funnel, st, i - 1, event)
                   ELSE st,
                   i + 1, event)

\* the session record created by checkFunnelStep on the first event of a
\* session
NewSession_clock(event) ==
  [ sessionId |-> event.sessionId,
    userId |-> event.userId,
    startTime |-> now,
    currentStep |-> -1,
    completedSteps |-> <<>>,
    events |-> <<>>,
    status |-> "active",
    completions |-> 0 ]

NewSession(event) ==
  [ sessionId |-> event.sessionId,
    userId |-> event.userId,
    startTime |-> event.timestamp,
    currentStep |-> -1,
    completedSteps |-> <<>>,
    events |-> <<>>,
    status |-> "active",
    \* number of standlog_funnel_complete events dispatched for the session
    completions |-> 0 ]

\* funnelData.sessions after checkFunnelStep: the session object of the key
\* sessionId was changed in place (or set, when new), the others are kept
PutSession_all(sessions, sessionId, session) ==
  [k \in DOMAIN sessions \cup {sessionId} |-> session]

PutSession(sessions, sessionId, session) == (sessionId :> session) @@ sessions

\* checkFunnelStep(funnel, event), on the funnel's entry of funnelData;
\* yields the new entry and the processStepCompletion calls made
checkFunnelStep(funnel, fd, event) ==
  LET sid == event.sessionId
      session0 == IF sid \in DOMAIN fd.sessions THEN fd.sessions[sid]
                  ELSE NewSession(event)
      session1 == [session0 EXCEPT !.events = Append(@, event.timestamp)]
      st == ForEachStep(funnel,
                        [session |-> session1, stats |-> fd.stats,
                         calls |-> <<>>, completions |-> session1.completions],
                        1, event)
      session2 == [st.session EXCEPT !.completions = st.completions]
  IN [ entry |-> [sessions |-> PutSession(fd.sessions, sid, session2),
                  stats |-> st.stats],
       calls |-> st.calls ]

\* getSessionId() / getUserId() of FunnelAnalyzer
getSessionId == IF lsSession = NoItem THEN "anonymous" ELSE lsSession

getUserId == IF lsUser = NoItem THEN "anonymous" ELSE lsUser

\* ---------------------------------------------------------- the inputs
CtaElement == << [id |-> <<"c", "t", "a">>, className |-> NoStr,
                 tagName |-> <<"b", "u", "t", "t", "o", "n">>] >>

\* the events given to addEvent, before it stamps session and user on them
InputEvents ==
  { [type |-> "pageview", url |-> UrlRoot, name |-> Undefined, element |-> NoObj],
    [type |-> "pageview", url |-> UrlSignup, name |-> Undefined, element |-> NoObj],
    [type |-> "custom", url |-> UrlRoot, name |-> "email_verified", element |-> NoObj],
    [type |-> "click", url |-> UrlRoot, name |-> Undefined, element |-> CtaElement] }

\* the session ids that a tracker on the page stores in localStorage
StoredSessions == {LocalSessionId}

\* ------------------------------------------------------------- actions
RECURSIVE CallsOf(_, _, _)
\* the calls made by analyzeEvent for the funnels i.., given the new entries
CallsOf(res, i, acc) ==
  IF i > Len(Funnels) THEN acc
  ELSE CallsOf(res, i + 1, acc \o res[Funnels[i].id].calls)

\* addEvent(event): stamps the event, logs it and analyzes it against every
\* funnel (analyzeEvent)
AddEvent(e) ==
  /\ Len(events) < MaxEvents
  /\ LET event == [type |-> e.type, url |-> e.url, name |-> e.name,
                   element |-> e.element, timestamp |-> now,
                   sessionId |-> getSessionId, userId |-> getUserId]
         res == [fid \in FunnelIds |->
                   checkFunnelStep(FunnelById(fid), funnelData[fid], event)]
     IN /\ events' = Append(events, event)
        /\ funnelData' = [fid \in FunnelIds |-> res[fid].entry]
        /\ lastCalls' = CallsOf(res, 1, <<>>)
  /\ UNCHANGED <<apiVars, api_signals, signals, personaVars, elseVars, lsSession, lsUser, now, analyticsVars, trackerVars>>

\* the tracker stores its session id: localStorage.setItem("standlog_session")
StoreSession(s) ==
  /\ s # lsSession
  /\ lsSession' = s
  /\ UNCHANGED <<apiVars, api_signals, signals, personaVars, elseVars, events, funnelData, lastCalls, lsUser, now, analyticsVars,
                 trackerVars>>

\* the wall clock read by Date.now() advances
ClockTick ==
  /\ now < MaxTicks * TickMs
  /\ now' = now + TickMs
  /\ UNCHANGED <<apiVars, api_signals, signals, personaVars, elseVars, events, funnelData, lastCalls, lsSession, lsUser, analyticsVars,
                 trackerVars>>

InitFunnel ==
  /\ events = <<>>
  /\ funnelData = [fid \in FunnelIds |->
                     [sessions |-> <<>>,
                      stats |-> initializeFunnelStats(Len(FunnelById(fid).steps))]]
  /\ lastCalls = <<>>
  /\ now = 0

NextFunnel ==
  \/ \E e \in InputEvents : AddEvent(e)
  \/ \E s \in StoredSessions : StoreSession(s)
  \/ ClockTick

\* ============================================== matching with any steps
\* ------------------------------------------------------------------ bounds
\* number of addEvent calls made on the analyzer with the funnel under test
MaxMatchEvents == 2

\* url patterns of the steps under test
UrlWild == <<"/", "s", "*">>
UrlBad == <<"*", "(">>

\* the steps a funnel under test is made of: each kind of predicate alone, a
\* wildcard url, a wildcard url that is no regular expression, and a step
\* with a url and an event
StepPool ==
  { [id |-> "by_url", url |-> UrlSignup, event |-> Undefined, selector |-> NoStr],
    [id |-> "by_wild", url |-> UrlWild, event |-> Undefined, selector |-> NoStr],
    [id |-> "by_bad", url |-> UrlBad, event |-> Undefined, selector |-> NoStr],
    [id |-> "by_both", url |-> UrlSignup, event |-> "pageview", selector |-> NoStr],
    [id |-> "by_event", url |-> NoStr, event |-> "email_verified", selector |-> NoStr],
    [id |-> "by_selector", url |-> NoStr, event |-> Undefined,
     selector |-> <<"#", "c", "t", "a">>] }

\* the events given to addEvent: those of InputEvents and a click event
\* without element descriptor
MatchEvents ==
  InputEvents \cup
    { [type |-> "click", url |-> UrlRoot, name |-> Undefined, element |-> NoObj] }

\* the funnels of the analyzer: one of two steps of the pool, defined first,
\* and the landing funnel, defined second
MatcherFunnels(s1, s2) ==
  << defineFunnel("tested", <<s1, s2>>, [timeWindow |-> 0, allowBacktrack |-> FALSE]),
     defineFunnel("landing", <<SignupSteps[1]>>,
                  [timeWindow |-> 0, allowBacktrack |-> FALSE]) >>

\* stepUrl.replace(/\*/g, ".*")
RECURSIVE replaceStars(_)
replaceStars(s) ==
  IF s = <<>> THEN <<>>
  ELSE (IF Head(s) = "*" THEN <<".", "*">> ELSE <<Head(s)>>) \o replaceStars(Tail(s))

RECURSIVE GroupsClosed(_, _)
\* are the parentheses of a pattern balanced, depth being the number of
\* groups open
GroupsClosed(pat, depth) ==
  IF pat = <<>> THEN depth = 0
  ELSE IF Head(pat) = "(" THEN GroupsClosed(Tail(pat), depth + 1)
  ELSE IF Head(pat) = ")" THEN depth > 0 /\ GroupsClosed(Tail(pat), depth - 1)
  ELSE GroupsClosed(Tail(pat), depth)

\* does "new RegExp(pattern)" throw a SyntaxError: for the patterns of the
\* model, when a group is not closed or a ")" closes none
RegExpThrows(pattern) == ~GroupsClosed(pattern, 0)

\* does urlMatches(eventUrl, stepUrl) throw: no try surrounds the RegExp
urlMatchesThrows(eventUrl, stepUrl) ==
  Includes(stepUrl, <<"*">>) /\ RegExpThrows(replaceStars(stepUrl))

\* does eventMatchesStep(event, step) throw
eventMatchesStepThrows(event, step) ==
  /\ step.url # NoStr /\ event.type = "pageview" /\ event.url # NoStr
  /\ urlMatchesThrows(event.url, step.url)

\* funnel.steps.forEach(...) of checkFunnelStep from step index i on, for
\* steps whose predicates can throw: an exception ends the loop, and what
\* the steps before it did to the session and the stats stays done. run
\* carries the state st of ForEachStep, the steps evaluated and matched, and
\* whether an exception was thrown
RECURSIVE ForEachStepOrThrow(_, _, _, _)
ForEachStepOrThrow(funnel, run, i, event) ==
  IF i > Len(funnel.steps) \/ run.threw THEN run
  ELSE IF eventMatchesStepThrows(event, funnel.steps[i])
  THEN [run EXCEPT !.threw = TRUE]
  ELSE LET m == eventMatchesStep(event, funnel.steps[i])
       IN ForEachStepOrThrow(funnel,
            [ st |-> IF m THEN processStepCompletion(funnel, run.st, i - 1, event)
                     ELSE run.st,
              evaluated |-> run.evaluated \cup {<<funnel.id, i - 1>>},
              matched |-> IF m THEN run.matched \cup {<<funnel.id, i - 1>>}
                          ELSE run.matched,
              threw |-> FALSE ],
            i + 1, event)

\* checkFunnelStep(funnel, event) for steps whose predicates can throw, on
\* the funnel's entry of funnelData
checkFunnelStepOrThrow(funnel, fd, event, evaluated, matched) ==
  LET sid == event.sessionId
      session0 == IF sid \in DOMAIN fd.sessions THEN fd.sessions[sid]
                  ELSE NewSession(event)
      session1 == [session0 EXCEPT !.events = Append(@, event.timestamp)]
      run == ForEachStepOrThrow(funnel,
               [ st |-> [session |-> session1, stats |-> fd.stats,
                         calls |-> <<>>, completions |-> session1.completions],
                 evaluated |-> evaluated, matched |-> matched, threw |-> FALSE ],
               1, event)
      session2 == [run.st.session EXCEPT !.completions = run.st.completions]
  IN [ entry |-> [sessions |-> PutSession(fd.sessions, sid, session2),
                  stats |-> run.st.stats],
       evaluated |-> run.evaluated, matched |-> run.matched, threw |-> run.threw ]

\* this.config.funnels.forEach(...) of analyzeEvent from funnel i on: an
\* exception thrown for one funnel ends the loop
RECURSIVE analyzeEventOrThrow(_, _, _, _)
analyzeEventOrThrow(funnels, an, i, event) ==
  IF i > Len(funnels) \/ an.threw THEN an
  ELSE LET r == checkFunnelStepOrThrow(funnels[i], an.data[i], event,
                                       an.evaluated, an.matched)
       IN analyzeEventOrThrow(funnels,
            [ data |-> [an.data EXCEPT ![i] = r.entry],
              evaluated |-> r.evaluated, matched |-> r.matched,
              threw |-> r.threw ],
            i + 1, event)

\* addEvent(event) on the analyzer with the funnel under test: stamps the
\* event, logs it and analyzes it; nothing catches what analyzeEvent throws
MatchEvent(e) ==
  /\ matcher # NoObj
  /\ Len(matcher[1].events) < MaxMatchEvents
  /\ LET m == matcher[1]
         event == [type |-> e.type, url |-> e.url, name |-> e.name,
                   element |-> e.element, timestamp |-> now,
                   sessionId |-> getSessionId, userId |-> getUserId]
         an == analyzeEventOrThrow(m.funnels,
                 [data |-> m.data, evaluated |-> {}, matched |-> {},
                  threw |-> FALSE], 1, event)
     IN matcher' = << [ funnels |-> m.funnels,
                        data |-> an.data,
                        events |-> Append(m.events, event),
                        last |-> [event |-> event, evaluated |-> an.evaluated,
                                  matched |-> an.matched, threw |-> an.threw] ] >>
  /\ UNCHANGED <<funnelVars, storageVars, analyticsVars, trackerVars, apiVars,
                 api_signals, signals, personaVars, identity>>

\* the analyzer after "new FunnelAnalyzer()" and the two defineFunnel calls
InitMatcher ==
  \E s1 \in StepPool, s2 \in StepPool :
    matcher = << [ funnels |-> MatcherFunnels(s1, s2),
                   data |-> [i \in 1..2 |->
                               [sessions |-> <<>>,
                                stats |-> initializeFunnelStats(
                                            Len(MatcherFunnels(s1, s2)[i].steps))]],
                   events |-> <<>>,
                   last |-> [event |-> NoObj, evaluated |-> {}, matched |-> {},
                             threw |-> FALSE] ] >>

NextMatch == \E e \in MatchEvents : MatchEvent(e)

\* ============================================================ delivery
\* ------------------------------------------------------------------ bounds
\* number of events captured by StandLogAnalytics after construction
MaxCaptured == 6
\* number of sendEvents calls that find a non-empty buffer
MaxFlushes == 2
\* number of beforeunload signals that the page survives
MaxUnloads == 1

\* the batch threshold of StandLogAnalytics.addEvent
AnalyticsBatchSize == 5

\* POST /session on the collector: one session per anonymousId, whose id is
\* returned by every successful call
ServerSessionId(anonymousId) ==
  CASE anonymousId = AnonymousId -> "srv_session" [] OTHER -> "srv_other"

\* how POST /event can end: an ok response, a response with an error status,
\* or a rejected fetch
Outcomes == {"ok", "http_error", "network_error"}

\* how POST /session can end: an ok response with the session in its body,
\* or anything else (error status, rejected fetch, unreadable body), after
\* which ensureSession returns with sessionCreated unset
SessionOutcomes == {"ok", "failed"}

\* ids of the events in a batch
IdsOf(batch) == {batch[k].id : k \in 1..Len(batch)}

\* what the responses received so far have told: the id returned by an ok
\* response of POST /session, and the events of the batches whose POST /event
\* failed
Seen(net) ==
  [ session |-> IF \E i \in 1..Len(net) : net[i].returned # "none"
                THEN (CHOOSE id \in {net[i].returned : i \in 1..Len(net)} :
                        id # "none")
                ELSE "none",
    failed |-> UNION {IdsOf(net[i].batch) :
                 i \in {k \in 1..Len(net) :
                          net[k].outcome \in {"http_error", "network_error"}}} ]

\* a request: what was sent, the sendEvents call that sent it, the responses
\* that had been received when it was issued; outcome and returned are filled
\* in when its response arrives
Request(endpoint, sid, batch, keepalive, flush, net) ==
  [ endpoint |-> endpoint, sessionId |-> sid, batch |-> batch,
    keepalive |-> keepalive, flush |-> flush, seen |-> Seen(net),
    outcome |-> "pending", returned |-> "none" ]

\* position in net of the request that flush f sent to endpoint
RequestOf(net, endpoint, f) ==
  CHOOSE i \in 1..Len(net) : net[i].endpoint = endpoint /\ net[i].flush = f

\* the response of the request that flush f sent to endpoint arrives
Respond(net, endpoint, f, outcome, returned) ==
  [net EXCEPT ![RequestOf(net, endpoint, f)] =
     [@ EXCEPT !.outcome = outcome, !.returned = returned]]

\* a captured event: its number in capture order, its type and the session
\* id written on it by the capture function
CapturedEvent(n, type) ==
  [ id |-> n, type |-> type, sessionId |-> sessionData.sessionId,
    userId |-> sessionData.userId ]

\* continuations of sendEvents that wait in the microtask queue
MicrotaskPending ==
  \E i \in 1..Len(a_flushes) : a_flushes[i].pc = "microtask"

\* the part of sendEvents after "await this.ensureSession()"
IssueEvents_reversed(net, sid, buffer, keepalive, flush) ==
  Append(net, Request("events", sid,
                      [i \in 1..Len(buffer) |-> buffer[Len(buffer) + 1 - i]],
                      keepalive, flush, net))

\* the part of sendEvents after "await this.ensureSession()": the payload is
\* built from the buffer as it is now and POST /event is issued
IssueEvents(net, sid, buffer, keepalive, flush) ==
  Append(net, Request("events", sid, buffer, keepalive, flush, net))

\* sendEvents(isBeforeUnload) up to its first suspension, for the buffer
\* given; yields the new a_flushes and a_net
sendEvents(buffer, isBeforeUnload) ==
  LET flush == Len(a_flushes) + 1
  IN IF buffer = <<>>
     THEN [flushes |-> a_flushes, net |-> a_net]
     ELSE IF sessionCreated
     THEN [flushes |-> Append(a_flushes, [pc |-> "microtask",
                                          keepalive |-> isBeforeUnload]),
           net |-> a_net]
     ELSE [flushes |-> Append(a_flushes, [pc |-> "session",
                                          keepalive |-> isBeforeUnload]),
           net |-> Append(a_net, Request("session", sessionData.anonymousId,
                                         <<>>, FALSE, flush, a_net))]

\* addEvent(eventData): push, then flush when the batch size is reached
addEvent(type) ==
  /\ a_captured < MaxCaptured
  /\ LET buffer == Append(a_events, CapturedEvent(a_captured + 1, type))
         sent == IF Len(buffer) >= AnalyticsBatchSize
                 THEN sendEvents(buffer, FALSE)
                 ELSE [flushes |-> a_flushes, net |-> a_net]
     IN /\ a_events' = buffer
        /\ Len(sent.flushes) <= MaxFlushes
        /\ a_flushes' = sent.flushes
        /\ a_net' = sent.net
  /\ a_captured' = a_captured + 1
  /\ UNCHANGED <<apiVars, personaVars, elseVars, sessionData, sessionCreated, a_unloads,
                 funnelVars, storageVars, trackerVars>>

\* track(eventName, properties): a custom event from the host page, which
\* can call it several times in a row before any continuation runs
Track ==
  /\ standlog # NoObj
  /\ addEvent("custom")
  /\ UNCHANGED <<api_signals, signals>>

\* the beforeunload listener: sendEvents(true)
BeforeUnload ==
  /\ "beforeunload" \in listeners
  /\ ~MicrotaskPending
  /\ a_unloads < MaxUnloads
  /\ a_unloads' = a_unloads + 1
  /\ LET sent == sendEvents(a_events, TRUE)
     IN /\ Len(sent.flushes) <= MaxFlushes
        /\ a_flushes' = sent.flushes
        /\ a_net' = sent.net
  /\ UNCHANGED <<apiVars, api_signals, signals, personaVars, elseVars, sessionData, sessionCreated, a_events, a_captured,
                 funnelVars, storageVars, trackerVars>>

\* sendEvents resumes after ensureSession returned at once because
\* sessionCreated was set; continuations run in the order they were queued
ResumeAfterEnsure(i) ==
  /\ a_flushes[i].pc = "microtask"
  /\ \A j \in 1..(i - 1) : a_flushes[j].pc # "microtask"
  /\ a_net' = IssueEvents(a_net, sessionData.sessionId, a_events,
                          a_flushes[i].keepalive, i)
  /\ a_flushes' = [a_flushes EXCEPT ![i].pc = "events"]
  /\ UNCHANGED <<apiVars, api_signals, signals, personaVars, elseVars, sessionData, sessionCreated, a_events, a_captured, a_unloads,
                 funnelVars, storageVars, trackerVars>>

\* ensureSession: "if (result.id) this.sessionData.sessionId = result.id"
AdoptSessionId_keep(current, resultId) == current

AdoptSessionId(current, resultId) ==
  IF resultId # NoItem THEN resultId ELSE current

\* the POST /session of flush i ends: ensureSession adopts the returned id
\* and sets sessionCreated on an ok response, swallows any failure, and
\* sendEvents goes on to build the payload and issue POST /event; reading the
\* body (response.json()) and the resumption of sendEvents are part of the
\* step, no handler of the page runs between them and the assignments
SessionResponse(i, outcome) ==
  /\ ~MicrotaskPending
  /\ a_flushes[i].pc = "session"
  /\ LET resultId == ServerSessionId(sessionData.anonymousId)
         sid == IF outcome = "ok"
                THEN AdoptSessionId(sessionData.sessionId, resultId)
                ELSE sessionData.sessionId
     IN /\ sessionData' = [sessionData EXCEPT !.sessionId = sid]
        /\ lsSession' = IF outcome = "ok" /\ resultId # NoItem
                        THEN resultId ELSE lsSession
        /\ sessionCreated' = (sessionCreated \/ outcome = "ok")
        /\ a_net' = IssueEvents(Respond(a_net, "session", i, outcome,
                                  IF outcome = "ok" THEN resultId ELSE "none"),
                                sid, a_events, a_flushes[i].keepalive, i)
  /\ a_flushes' = [a_flushes EXCEPT ![i].pc = "events"]
  /\ UNCHANGED <<apiVars, api_signals, signals, personaVars, elseVars, a_events, a_captured, a_unloads, funnelVars, lsUser,
                 trackerVars>>

\* the POST /event of flush i ends: the buffer is cleared when the fetch
\* resolves, whatever the status; a rejected fetch is caught and logged
EventsResponse(i, outcome) ==
  /\ ~MicrotaskPending
  /\ a_flushes[i].pc = "events"
  /\ a_events' = IF outcome = "network_error" THEN a_events ELSE <<>>
  /\ a_net' = Respond(a_net, "events", i, outcome, "none")
  /\ a_flushes' = [a_flushes EXCEPT ![i].pc = "done"]
  /\ UNCHANGED <<apiVars, api_signals, signals, personaVars, elseVars, sessionData, sessionCreated, a_captured, a_unloads,
                 funnelVars, storageVars, trackerVars>>

\* the state after "new StandLogAnalytics(key)": init() filled sessionData
\* and setupTracking captured the first page view
InitAnalytics ==
  /\ sessionData = [sessionId |-> LocalSessionId, userId |-> VisitorId,
                    anonymousId |-> AnonymousId]
  /\ sessionCreated = FALSE
  /\ a_events = << [id |-> 1, type |-> "pageview",
                    sessionId |-> LocalSessionId, userId |-> VisitorId] >>
  /\ a_flushes = <<>>
  /\ a_net = <<>>
  /\ a_captured = 1
  /\ a_unloads = 0

NextAnalytics ==
  \/ Track
  \/ BeforeUnload
  \/ \E i \in 1..Len(a_flushes) : ResumeAfterEnsure(i)
  \/ \E i \in 1..Len(a_flushes), o \in SessionOutcomes : SessionResponse(i, o)
  \/ \E i \in 1..Len(a_flushes), o \in Outcomes : EventsResponse(i, o)

\* ------------------------------------------------------ StandLogTracker
\* number of events captured by StandLogTracker, the first page view included
MaxTrackerCaptured == 10
\* number of sendEvents calls of StandLogTracker that find a non-empty buffer
MaxTrackerFlushes == 2
\* number of click signals and of beforeunload signals
MaxTrackerSignals == 1
\* number of times the 5 second interval elapses
MaxIntervalTicks == 2

\* the batch threshold of StandLogTracker.addEvent
TrackerBatchSize == 10

\* ------------------------------------------------------------- the page
\* an element of the page: its tag name, the attributes written on it, its
\* text, the form it belongs to (0 for none) and, for a form control, its
\* current value; attribute values and texts are sequences of characters
Element(tagName, attributes, text, form, value) ==
  [ tagName |-> tagName, attributes |-> attributes, text |-> text,
    form |-> form, value |-> value ]

TagInput == <<"I", "N", "P", "U", "T">>
TagForm == <<"F", "O", "R", "M">>
TagButton == <<"B", "U", "T", "T", "O", "N">>
TypePassword == <<"p", "a", "s", "s", "w", "o", "r", "d">>
TypeText == <<"t", "e", "x", "t">>

\* a page with one button and no form
ButtonPage ==
  << Element(TagButton, ("id" :> <<"c", "t", "a">>), <<"G", "o">>, 0, NoStr) >>

\* a page with a login form: a text input, and a password input that the
\* server rendered with the remembered password in its value attribute
LoginPage ==
  << Element(TagForm, ("id" :> <<"l", "o", "g", "i", "n">>), NoStr, 0, NoStr),
     Element(TagInput, ("type" :> TypeText) @@ ("name" :> <<"u", "s", "e", "r">>),
             NoStr, 1, NoStr),
     Element(TagInput, ("type" :> TypePassword) @@ ("name" :> <<"p", "w">>)
                       @@ ("value" :> <<"k", "9">>),
             NoStr, 1, <<"k", "9">>),
     Element(TagButton, ("class" :> <<"b", "t", "n", " ", "o", "k">>),
             <<" ", "G", "o">>, 1, NoStr) >>

\* what the visitor types into a text input and into a password input
TextValues == { <<"b", "o", "b">>, <<"a", "l">> }
SecretValues == { <<"s", "3">>, <<"k", "9">> }

\* element.id, element.className, input.name: the attribute, or ""
Reflect(element, name) ==
  IF name \in DOMAIN element.attributes THEN element.attributes[name] ELSE NoStr

\* input.type: the type attribute in lower case, "text" when it is missing
InputType(element) ==
  IF "type" \in DOMAIN element.attributes
  THEN toLowerCase(element.attributes["type"]) ELSE TypeText

\* String.prototype.substring(0, n)
substring(str, n) == SubSeq(str, 1, IF Len(str) < n THEN Len(str) ELSE n)

\* String.prototype.trim
RECURSIVE trim(_)
trim(str) ==
  IF str = <<>> THEN str
  ELSE IF Head(str) = " " THEN trim(Tail(str))
  ELSE IF str[Len(str)] = " " THEN trim(SubSeq(str, 1, Len(str) - 1))
  ELSE str

\* className.split(" ").join(".")
SplitJoin(str) == [i \in 1..Len(str) |-> IF str[i] = " " THEN "." ELSE str[i]]

\* generateSelector(element)
generateSelector(element) ==
  IF Reflect(element, "id") # NoStr THEN <<"#">> \o Reflect(element, "id")
  ELSE toLowerCase(element.tagName)
       \o (IF Reflect(element, "class") # NoStr
           THEN <<".">> \o SplitJoin(Reflect(element, "class")) ELSE <<>>)

\* getElementAttributes(element): a copy of every attribute of the element
getElementAttributes(element) ==
  [name \in DOMAIN element.attributes |-> element.attributes[name]]

\* getElementInfo(element)
getElementInfo(element) ==
  [ tagName |-> toLowerCase(element.tagName),
    id |-> Reflect(element, "id"),
    className |-> Reflect(element, "class"),
    textContent |-> substring(trim(element.text), 100),
    attributes |-> getElementAttributes(element),
    selector |-> generateSelector(element) ]

\* the constant that getFormFields writes in place of a password
HiddenMarker == <<"[", "H", "I", "D", "D", "E", "N", "]">>

\* form.querySelectorAll("input, select, textarea"): positions in the page
\* of the controls of the form at position f, in document order
FormControls(page, f) ==
  SelectSeq([i \in 1..Len(page) |-> i],
            LAMBDA i : page[i].form = f /\ page[i].tagName = TagInput)

\* getFormFields(form)
getFormFields(page, f) ==
  LET inputs == FormControls(page, f)
  IN [k \in 1..Len(inputs) |->
        LET input == page[inputs[k]]
        IN [ name |-> Reflect(input, "name"),
             type |-> InputType(input),
             value |-> IF InputType(input) = TypePassword
                       THEN HiddenMarker
                       ELSE substring(input.value, 100) ]]

\* sendEvents(isBeforeUnload) without "if (this.events.length === 0) return"
t_sendEvents_always(buffer, isBeforeUnload, trigger) ==
  [flushes |-> Append(t_flushes, [pc |-> "events", trigger |-> trigger]),
   net |-> Append(t_net, Request("events", LocalSessionId, buffer,
                                 isBeforeUnload, Len(t_flushes) + 1, t_net))]

\* sendEvents(isBeforeUnload): the payload is a copy of the buffer and the
\* fetch is issued before the call suspends; trigger names the caller
t_sendEvents(buffer, isBeforeUnload, trigger) ==
  IF buffer = <<>>
  THEN [flushes |-> t_flushes, net |-> t_net]
  ELSE [flushes |-> Append(t_flushes, [pc |-> "events", trigger |-> trigger]),
        net |-> Append(t_net, Request("events", LocalSessionId, buffer,
                                      isBeforeUnload, Len(t_flushes) + 1,
                                      t_net))]

\* addEvent(eventData): stamp, push, flush when the batch size is reached;
\* eventData is the event's type and its payload (<<>> when the model keeps
\* none)
t_addEvent(eventData) ==
  /\ t_captured < MaxTrackerCaptured
  /\ LET buffer == Append(t_events, [id |-> t_captured + 1,
                                     type |-> eventData.type,
                                     payload |-> eventData.payload,
                                     sessionId |-> LocalSessionId,
                                     userId |-> VisitorId])
         sent == IF Len(buffer) >= TrackerBatchSize
                 THEN t_sendEvents(buffer, FALSE, "threshold")
                 ELSE [flushes |-> t_flushes, net |-> t_net]
     IN /\ Len(sent.flushes) <= MaxTrackerFlushes
        /\ t_events' = buffer
        /\ t_flushes' = sent.flushes
        /\ t_net' = sent.net
  /\ t_captured' = t_captured + 1
  /\ UNCHANGED <<apiVars, api_signals, signals, personaVars, elseVars, dom, funnelVars, storageVars, analyticsVars>>

\* track(eventName, properties)
t_Track ==
  /\ t_addEvent([type |-> "custom", payload |-> <<>>])
  /\ UNCHANGED t_signals

\* trackClick(event): a click on the element at position target of the page
t_TrackClick ==
  /\ t_signals.click < MaxTrackerSignals
  /\ t_signals' = [t_signals EXCEPT !.click = @ + 1]
  /\ \E target \in 1..Len(dom) :
       t_addEvent([type |-> "click",
                   payload |-> << [element |-> getElementInfo(dom[target])] >>])

\* trackFormSubmit(event): the form at position f of the page is submitted
t_TrackFormSubmit ==
  /\ t_signals.submit < MaxTrackerSignals
  /\ t_signals' = [t_signals EXCEPT !.submit = @ + 1]
  /\ \E f \in {i \in 1..Len(dom) : dom[i].tagName = TagForm} :
       t_addEvent([type |-> "form_submit",
                   payload |-> << [form |-> [id |-> Reflect(dom[f], "id"),
                                            fields |-> getFormFields(dom, f)]] >>])

\* the visitor types into the form control at position i: its current value
\* changes, its value attribute does not
TypeInto(i, v) ==
  /\ dom[i].tagName = TagInput
  /\ v \in (IF InputType(dom[i]) = TypePassword THEN SecretValues ELSE TextValues)
  /\ dom[i].value # v
  /\ dom' = [dom EXCEPT ![i].value = v]
  /\ UNCHANGED <<apiVars, api_signals, signals, personaVars, elseVars, t_events, t_flushes, t_net, t_captured, t_signals,
                 funnelVars, storageVars, analyticsVars>>

\* the setInterval callback of startTracking, every 5 seconds
t_IntervalTick ==
  /\ t_signals.interval < MaxIntervalTicks
  /\ t_signals' = [t_signals EXCEPT !.interval = @ + 1]
  /\ LET sent == IF Len(t_events) > 0
                 THEN t_sendEvents(t_events, FALSE, "interval")
                 ELSE [flushes |-> t_flushes, net |-> t_net]
     IN /\ Len(sent.flushes) <= MaxTrackerFlushes
        /\ t_flushes' = sent.flushes
        /\ t_net' = sent.net
  /\ UNCHANGED <<apiVars, api_signals, signals, personaVars, elseVars, t_events, t_captured, dom, funnelVars, storageVars,
                 analyticsVars>>

\* the beforeunload listener of startTracking: sendEvents(true)
t_BeforeUnload ==
  /\ t_signals.unload < MaxTrackerSignals
  /\ t_signals' = [t_signals EXCEPT !.unload = @ + 1]
  /\ LET sent == t_sendEvents(t_events, TRUE, "unload")
     IN /\ Len(sent.flushes) <= MaxTrackerFlushes
        /\ t_flushes' = sent.flushes
        /\ t_net' = sent.net
  /\ UNCHANGED <<apiVars, api_signals, signals, personaVars, elseVars, t_events, t_captured, dom, funnelVars, storageVars,
                 analyticsVars>>

\* the fetch of flush i ends: the buffer is cleared on an ok response only
t_EventsResponse(i, outcome) ==
  /\ t_flushes[i].pc = "events"
  /\ t_events' = IF outcome = "ok" THEN <<>> ELSE t_events
  /\ t_net' = Respond(t_net, "events", i, outcome, "none")
  /\ t_flushes' = [t_flushes EXCEPT ![i].pc = "done"]
  /\ UNCHANGED <<apiVars, api_signals, signals, personaVars, elseVars, t_captured, t_signals, dom, funnelVars, storageVars,
                 analyticsVars>>

\* the state after "new StandLogTracker(key)" and the continuation of its
\* init(): setupEventListeners captured the first page view, startTracking
\* started the interval
InitTracker ==
  /\ t_events = << [id |-> 1, type |-> "pageview", payload |-> <<>>,
                    sessionId |-> LocalSessionId, userId |-> VisitorId] >>
  /\ t_flushes = <<>>
  /\ t_net = <<>>
  /\ t_captured = 1
  /\ t_signals = [interval |-> 0, click |-> 0, submit |-> 0, unload |-> 0]

NextTracker ==
  \/ t_Track
  \/ t_TrackClick
  \/ t_IntervalTick
  \/ t_BeforeUnload
  \/ \E i \in 1..Len(t_flushes), o \in Outcomes : t_EventsResponse(i, o)

\* StandLogTracker on a page with a form: what the visitor does to the form
NextForms ==
  \/ \E i \in 1..Len(dom), v \in TextValues \cup SecretValues : TypeInto(i, v)
  \/ t_TrackClick
  \/ t_TrackFormSubmit

\* ====================================================== PersonaAnalyzer
\* ------------------------------------------------------------------ bounds
\* number of addUserEvent runs fed to the PersonaAnalyzer
MaxIngests == 2
\* number of times the wall clock advances between two runs
MaxPersonaTicks == 3
\* the opening run: page views and then clicks that one visitor makes in a
\* row, without any other event or clock reading in between
WarmPageViews == 11
WarmClicks == 50

\* ------------------------------------------------------------- JS numbers
\* a value read by a rule: a number n / d with d > 0, a string or a boolean;
\* k is "num", "str", "bool" or "nan"
Num(n, d) == [k |-> "num", n |-> n, d |-> d, s |-> "", b |-> FALSE]
Str(s) == [k |-> "str", n |-> 0, d |-> 1, s |-> s, b |-> FALSE]
Bool(b) == [k |-> "bool", n |-> 0, d |-> 1, s |-> "", b |-> b]
NaN == [k |-> "nan", n |-> 0, d |-> 1, s |-> "", b |-> FALSE]

\* a / b of two numbers, b # 0, with a positive denominator
Div(a, b) ==
  IF b.n > 0 THEN Num(a.n * b.d, a.d * b.n) ELSE Num(-(a.n * b.d), -(a.d * b.n))

Plus(a, b) == Num(a.n * b.d + b.n * a.d, a.d * b.d)

Times(a, b) == Num(a.n * b.n, a.d * b.d)

\* a < b, a <= b on numbers; a comparison with a value that is not a number
\* is false, as it is in JS for the values of the model
Lt(a, b) == a.k = "num" /\ b.k = "num" /\ a.n * b.d < b.n * a.d
Le(a, b) == a.k = "num" /\ b.k = "num" /\ a.n * b.d <= b.n * a.d

\* a === b
StrictEq(a, b) ==
  /\ a.k = b.k
  /\ CASE a.k = "num" -> a.n * b.d = b.n * a.d
       [] a.k = "str" -> a.s = b.s
       [] a.k = "bool" -> a.b = b.b
       [] OTHER -> FALSE

\* Math.min(1, x), x a number
MathMin1(x) == IF Lt(x, Num(1, 1)) THEN x ELSE Num(1, 1)

\* Math.round(x): the integer nearest to x, halves going up; NaN stays NaN
MathRound(x) ==
  IF x.k = "nan" THEN NaN ELSE Num((2 * x.n + x.d) \div (2 * x.d), 1)

\* ------------------------------------------------------------- personas
Rule(metric, operator, value, timeframe) ==
  [ metric |-> metric, operator |-> operator, value |-> value,
    timeframe |-> timeframe ]

\* the personas defined by initializeDefaultPersonas, in definition order
DefaultPersonas ==
  << [ id |-> "power_user",
       rules |-> << Rule("pageViews", ">", <<Num(10, 1)>>, "session"),
                    Rule("sessionDuration", ">", <<Num(300000, 1)>>, "session"),
                    Rule("clickCount", ">", <<Num(50, 1)>>, "session") >> ],
     [ id |-> "casual_user",
       rules |-> << Rule("pageViews", "between", <<Num(3, 1), Num(10, 1)>>,
                         "session"),
                    Rule("sessionDuration", "between",
                         <<Num(60000, 1), Num(300000, 1)>>, "session") >> ],
     [ id |-> "bouncer",
       rules |-> << Rule("pageViews", "<=", <<Num(1, 1)>>, "session"),
                    Rule("sessionDuration", "<", <<Num(30000, 1)>>, "session") >> ],
     [ id |-> "mobile_user",
       rules |-> << Rule("deviceType", "=", <<Str("mobile")>>, "session"),
                    Rule("mobileSessionRatio", ">", <<Num(8, 10)>>, "week") >> ],
     [ id |-> "converter",
       rules |-> << Rule("conversionEvents", ">", <<Num(0, 1)>>, "session"),
                    Rule("funnelCompletion", "=", <<Bool(TRUE)>>, "session") >> ] >>

\* a persona defined by the host page with definePersona(id, {name}): config
\* has no rules, so "config.rules || []" gives it none
CustomPersonas == << [id |-> "everyone", rules |-> <<>>] >>

\* this.config.personas after construction and the host's definePersona calls
Personas == DefaultPersonas \o CustomPersonas

PersonaIds == {Personas[i].id : i \in 1..Len(Personas)}

PersonaById(pid) ==
  CHOOSE p \in {Personas[i] : i \in 1..Len(Personas)} : p.id = pid

\* -------------------------------------------------------------- profiles
\* createUserProfile(userId); the histograms that no rule reads (browsers,
\* locations, referrers, pages) are left out, deviceTypes keeps its keys in
\* insertion order as <<device, count>> pairs
createUserProfile(userId) ==
  [ id |-> userId,
    firstSeen |-> now,
    lastSeen |-> now,
    sessions |-> <<>>,
    currentSession |-> NoObj,
    personas |-> <<>>,
    metrics |-> [ totalSessions |-> 0,
                  totalPageViews |-> 0,
                  totalDuration |-> 0,
                  totalClicks |-> 0,
                  conversionEvents |-> 0,
                  deviceTypes |-> <<>> ] ]

SessionTimeout == 1800000

\* isNewSession(currentSession, event)
isNewSession_atLeast(currentSession, event) ==
  event.timestamp - currentSession.lastActivity >= SessionTimeout

isNewSession(currentSession, event) ==
  event.timestamp - currentSession.lastActivity > SessionTimeout

\* startNewSession(user, event); events holds the number of events pushed
startNewSession(user, event) ==
  [user EXCEPT
     !.sessions = IF user.currentSession # NoObj
                  THEN Append(@, user.currentSession[1]) ELSE @,
     !.currentSession = << [ startTime |-> event.timestamp,
                             lastActivity |-> event.timestamp,
                             duration |-> 0,
                             pageViews |-> 0,
                             clicks |-> 0,
                             conversions |-> 0,
                             formSubmissions |-> 0,
                             events |-> 0,
                             device |-> event.device ] >>,
     !.metrics.totalSessions = @ + 1]

\* the patterns of getDeviceType
UaMobile == {<<"M", "o", "b", "i", "l", "e">>, <<"A", "n", "d", "r", "o", "i", "d">>,
             <<"i", "P", "h", "o", "n", "e">>, <<"i", "P", "a", "d">>}
UaTablet == <<"T", "a", "b", "l", "e", "t">>

\* getDeviceType(userAgent)
getDeviceType(userAgent) ==
  IF \E pat \in UaMobile : Includes(userAgent, pat) THEN "mobile"
  ELSE IF Includes(userAgent, UaTablet) THEN "tablet"
  ELSE "desktop"

\* devices[deviceType] = (devices[deviceType] || 0) + 1
Count(devices, deviceType) ==
  IF \E i \in 1..Len(devices) : devices[i][1] = deviceType
  THEN [i \in 1..Len(devices) |->
          IF devices[i][1] = deviceType
          THEN <<deviceType, devices[i][2] + 1>> ELSE devices[i]]
  ELSE Append(devices, <<deviceType, 1>>)

\* updateDeviceMetrics(user, device)
updateDeviceMetrics(user, device) ==
  [user EXCEPT !.metrics.deviceTypes = Count(@, getDeviceType(device[1].userAgent))]

RECURSIVE SumDurations(_)
\* user.sessions.reduce((total, s) => total + s.duration, 0)
SumDurations(sessions) ==
  IF sessions = <<>> THEN 0
  ELSE sessions[1].duration + SumDurations(Tail(sessions))

NameConversion == <<"c", "o", "n", "v", "e", "r", "s", "i", "o", "n">>

\* updateUserProfile(user, event)
updateUserProfile(user, event) ==
  LET u1 == [user EXCEPT !.lastSeen = event.timestamp]
      u2 == IF u1.currentSession = NoObj \/ isNewSession(u1.currentSession[1], event)
            THEN startNewSession(u1, event) ELSE u1
      u3 == [u2 EXCEPT !.currentSession[1].events = @ + 1,
                       !.currentSession[1].lastActivity = event.timestamp]
      u4 == CASE event.type = "pageview" ->
                   [u3 EXCEPT !.metrics.totalPageViews = @ + 1,
                              !.currentSession[1].pageViews = @ + 1]
               [] event.type = "click" ->
                   [u3 EXCEPT !.metrics.totalClicks = @ + 1,
                              !.currentSession[1].clicks = @ + 1]
               [] event.type = "custom" ->
                   IF event.name # NoStr /\ Includes(event.name, NameConversion)
                   THEN [u3 EXCEPT !.metrics.conversionEvents = @ + 1,
                                   !.currentSession[1].conversions = @ + 1]
                   ELSE u3
               [] event.type = "form_submit" ->
                   [u3 EXCEPT !.currentSession[1].formSubmissions = @ + 1]
               [] OTHER -> u3
      u5 == IF event.device # NoObj THEN updateDeviceMetrics(u4, event.device)
            ELSE u4
  IN [u5 EXCEPT
        !.currentSession[1].duration =
           u5.currentSession[1].lastActivity - u5.currentSession[1].startTime,
        !.metrics.totalDuration = SumDurations(u5.sessions)]

\* ---------------------------------------------------------------- rules
RECURSIVE MostFrequent(_, _, _, _)
\* the forEach of getMostFrequentDevice over Object.entries(devices)
MostFrequent(devices, i, maxCount, mostFrequent) ==
  IF i > Len(devices) THEN mostFrequent
  ELSE IF devices[i][2] > maxCount
  THEN MostFrequent(devices, i + 1, devices[i][2], devices[i][1])
  ELSE MostFrequent(devices, i + 1, maxCount, mostFrequent)

\* getMostFrequentDevice(user)
getMostFrequentDevice(user) == MostFrequent(user.metrics.deviceTypes, 1, 0, "desktop")

\* user.metrics.deviceTypes.mobile || 0
MobileCount(user) ==
  LET devices == user.metrics.deviceTypes
  IN IF \E i \in 1..Len(devices) : devices[i][1] = "mobile"
     THEN (CHOOSE p \in {devices[i] : i \in 1..Len(devices)} : p[1] = "mobile")[2]
     ELSE 0

\* getMobileSessionRatio(user, timeframe)
getMobileSessionRatio(user, timeframe) ==
  IF user.metrics.totalSessions > 0
  THEN Num(MobileCount(user), user.metrics.totalSessions) ELSE Num(0, 1)

\* "session?.field || 0"
SessionField(user, field) ==
  IF user.currentSession = NoObj THEN 0 ELSE user.currentSession[1][field]

\* the clickCount case of getUserMetric
ClickCount_none(user, timeframe) == Num(0, 1)

ClickCount(user, timeframe) ==
  IF timeframe = "session" THEN Num(SessionField(user, "clicks"), 1)
  ELSE Num(user.metrics.totalClicks, 1)

\* getUserMetric(user, metric, timeframe)
getUserMetric(user, metric, timeframe) ==
  CASE metric = "pageViews" ->
         IF timeframe = "session" THEN Num(SessionField(user, "pageViews"), 1)
         ELSE Num(user.metrics.totalPageViews, 1)
    [] metric = "sessionDuration" ->
         IF timeframe = "session" THEN Num(SessionField(user, "duration"), 1)
         ELSE IF user.metrics.totalSessions = 0 THEN NaN
         ELSE Num(user.metrics.totalDuration, user.metrics.totalSessions)
    [] metric = "clickCount" -> ClickCount(user, timeframe)
    [] metric = "conversionEvents" ->
         IF timeframe = "session" THEN Num(SessionField(user, "conversions"), 1)
         ELSE Num(user.metrics.conversionEvents, 1)
    [] metric = "deviceType" -> Str(getMostFrequentDevice(user))
    [] metric = "mobileSessionRatio" -> getMobileSessionRatio(user, timeframe)
    [] metric = "funnelCompletion" -> Bool(SessionField(user, "conversions") > 0)
    [] OTHER -> Num(0, 1)

\* evaluateRule(user, rule)
evaluateRule(user, rule) ==
  LET value == getUserMetric(user, rule.metric, rule.timeframe)
  IN CASE rule.operator = ">" -> Lt(rule.value[1], value)
       [] rule.operator = "<" -> Lt(value, rule.value[1])
       [] rule.operator = ">=" -> Le(rule.value[1], value)
       [] rule.operator = "<=" -> Le(value, rule.value[1])
       [] rule.operator = "=" -> StrictEq(value, rule.value[1])
       [] rule.operator = "!=" -> ~StrictEq(value, rule.value[1])
       [] rule.operator = "between" ->
            Le(rule.value[1], value) /\ Le(value, rule.value[2])
       [] rule.operator = "in" ->
            \E i \in 1..Len(rule.value) : StrictEq(value, rule.value[i])
       [] OTHER -> FALSE

\* userMatchesPersona(user, persona): persona.rules.every(...)
userMatchesPersona_some(user, persona) ==
  \E i \in 1..Len(persona.rules) : evaluateRule(user, persona.rules[i])

userMatchesPersona(user, persona) ==
  \A i \in 1..Len(persona.rules) : evaluateRule(user, persona.rules[i])

\* the ruleScore of calculatePersonaConfidence for one rule: a division by
\* ruleValue * 2 = 0 gives Infinity, of which Math.min makes 1
RuleScore(user, rule) ==
  LET userValue == getUserMetric(user, rule.metric, rule.timeframe)
      ruleValue == rule.value[1]
  IN IF rule.operator = ">" /\ Lt(ruleValue, userValue)
     THEN IF ruleValue.n = 0 THEN Num(1, 1)
          ELSE MathMin1(Div(userValue, Times(ruleValue, Num(2, 1))))
     ELSE IF rule.operator = "=" /\ StrictEq(userValue, ruleValue)
     THEN Num(1, 1)
     ELSE Num(0, 1)

RECURSIVE SumScores(_, _, _)
\* the forEach of calculatePersonaConfidence from rule i on
SumScores(user, rules, i) ==
  IF i > Len(rules) THEN Num(0, 1)
  ELSE Plus(RuleScore(user, rules[i]), SumScores(user, rules, i + 1))

\* calculatePersonaConfidence(user, persona): 0 / 0 is NaN
calculatePersonaConfidence(user, persona) ==
  LET score == SumScores(user, persona.rules, 1)
      totalRules == Len(persona.rules)
  IN IF totalRules = 0
     THEN MathRound(NaN)
     ELSE MathRound(Times(Div(score, Num(totalRules, 1)), Num(100, 1)))

\* -------------------------------------------------------------- segments
\* initializePersonaMetrics(), the metrics that updatePersonaMetrics writes
initializePersonaMetrics ==
  [ totalUsers |-> 0, activeUsers |-> 0, avgSessionDuration |-> Num(0, 1),
    avgPageViews |-> Num(0, 1), conversionRate |-> Num(0, 1) ]

RECURSIVE SumPerSession(_, _, _)
\* ids.reduce((sum, u) => sum + u.metrics[field] / u.metrics.totalSessions, 0)
SumPerSession(profiles, ids, field) ==
  IF ids = {} THEN Num(0, 1)
  ELSE LET id == CHOOSE x \in ids : TRUE
       IN Plus(Num(profiles[id].metrics[field], profiles[id].metrics.totalSessions),
               SumPerSession(profiles, ids \ {id}, field))

ActiveWindow == 86400000

\* updatePersonaMetrics(), for the profiles and segments given
updatePersonaMetrics(profiles, segs) ==
  [pid \in DOMAIN segs |->
     LET ids == segs[pid].users \cap DOMAIN profiles
         count == Cardinality(ids)
         metrics == segs[pid].metrics
     IN [segs[pid] EXCEPT !.metrics =
          [ totalUsers |-> count,
            activeUsers |->
              Cardinality({id \in ids : now - profiles[id].lastSeen < ActiveWindow}),
            avgSessionDuration |->
              IF count > 0
              THEN Div(SumPerSession(profiles, ids, "totalDuration"), Num(count, 1))
              ELSE metrics.avgSessionDuration,
            avgPageViews |->
              IF count > 0
              THEN Div(SumPerSession(profiles, ids, "totalPageViews"), Num(count, 1))
              ELSE metrics.avgPageViews,
            conversionRate |->
              IF count > 0
              THEN Num(Cardinality({id \in ids :
                                      profiles[id].metrics.conversionEvents > 0}),
                       count)
              ELSE metrics.conversionRate ]]]

\* ids of the personas in a profile's list
IdsIn(personas) == {personas[i].id : i \in 1..Len(personas)}

\* the test "!currentPersonas.has(persona.id)" of analyzeUserPersona
IsNewAssignment_always(currentPersonas, id) == TRUE

IsNewAssignment(currentPersonas, id) == id \notin currentPersonas

RECURSIVE AssignPersonas(_, _, _, _)
\* the forEach of analyzeUserPersona from persona i on; st is the profile,
\* the segments and newPersonas
AssignPersonas(st, currentPersonas, user0, i) ==
  IF i > Len(Personas) THEN st
  ELSE LET persona == Personas[i]
           matches == userMatchesPersona(user0, persona)
           assign == matches /\ IsNewAssignment(currentPersonas, persona.id)
       IN AssignPersonas(
            [ user |-> IF assign
                       THEN [st.user EXCEPT !.personas =
                               Append(@, [ id |-> persona.id,
                                           assignedAt |-> now,
                                           confidence |->
                                             calculatePersonaConfidence(user0, persona) ])]
                       ELSE st.user,
              segs |-> IF assign
                       THEN [st.segs EXCEPT ![persona.id].users = @ \cup {user0.id}]
                       ELSE st.segs,
              newPersonas |-> IF matches THEN st.newPersonas \cup {persona.id}
                              ELSE st.newPersonas ],
            currentPersonas, user0, i + 1)

\* the test of the filter that removes the personas that no longer match
KeepPersona_all(newPersonas, id) == TRUE

KeepPersona(newPersonas, id) == id \in newPersonas

\* analyzeUserPersona(user), for the profiles and segments given; yields the
\* new profile of the user and the new segments
analyzeUserPersona(profiles, segs, user) ==
  LET currentPersonas == IdsIn(user.personas)
      st == AssignPersonas([user |-> user, segs |-> segs, newPersonas |-> {}],
                           currentPersonas, user, 1)
      kept == SelectSeq(st.user.personas,
                        LAMBDA p : KeepPersona(st.newPersonas, p.id))
      dropped == {id \in IdsIn(st.user.personas) : ~KeepPersona(st.newPersonas, id)}
      user1 == [st.user EXCEPT !.personas = kept]
      segs1 == [pid \in DOMAIN st.segs |->
                  IF pid \in dropped
                  THEN [st.segs[pid] EXCEPT !.users = @ \ {user.id}]
                  ELSE st.segs[pid]]
      profiles1 == (user.id :> user1) @@ profiles
  IN [ profiles |-> profiles1,
       segs |-> updatePersonaMetrics(profiles1, segs1) ]

\* addUserEvent(userId, event), for the profiles and segments given
addUserEvent(profiles, segs, userId, event) ==
  LET user == IF userId \in DOMAIN profiles THEN profiles[userId]
              ELSE createUserProfile(userId)
      updated == updateUserProfile(user, event)
  IN analyzeUserPersona(profiles, segs, updated)

\* ---------------------------------------------------------- the inputs
UaDesktop == <<"X", "1", "1">>
UaPhone == <<"i", "P", "h", "o", "n", "e">>

\* the events given to addUserEvent, before their timestamp is written
PersonaEvents ==
  { [type |-> "pageview", name |-> NoStr, device |-> <<[userAgent |-> UaDesktop]>>],
    [type |-> "pageview", name |-> NoStr, device |-> <<[userAgent |-> UaPhone]>>],
    [type |-> "click", name |-> NoStr, device |-> NoObj],
    [type |-> "custom", name |-> NameConversion, device |-> NoObj] }

PersonaUsers == {"u1", "u2"}

\* ------------------------------------------------------------- actions
\* the host gives an event of a user, captured now, to addUserEvent
Ingest(userId, e) ==
  /\ LET event == [type |-> e.type, name |-> e.name, device |-> e.device,
                   timestamp |-> now]
         st == addUserEvent(users, segments, userId, event)
     IN /\ users' = st.profiles
        /\ segments' = st.segs
  /\ p_last' = [ userId |-> userId, type |-> e.type,
                 before |-> IF userId \in DOMAIN users
                            THEN IdsIn(users[userId].personas) ELSE {} ]
  /\ UNCHANGED <<funnelVars, storageVars, analyticsVars, trackerVars, apiVars,
                 api_signals, signals, elseVars>>

\* is the opening run under way
Opening == 0 < p_opening /\ p_opening < WarmPageViews + WarmClicks

\* the next event of the opening run of visitor "u1"
OpeningEvent ==
  /\ p_ingests = 0
  /\ now = 0
  /\ p_opening < WarmPageViews + WarmClicks
  /\ p_opening' = p_opening + 1
  /\ Ingest("u1", IF p_opening < WarmPageViews
                  THEN [type |-> "pageview", name |-> NoStr,
                        device |-> <<[userAgent |-> UaDesktop]>>]
                  ELSE [type |-> "click", name |-> NoStr, device |-> NoObj])
  /\ UNCHANGED p_ingests

\* any event of any user, before or after the opening run
AddUserEvent(userId, e) ==
  /\ ~Opening
  /\ p_ingests < MaxIngests
  /\ p_ingests' = p_ingests + 1
  /\ Ingest(userId, e)
  /\ UNCHANGED p_opening

\* the wall clock read by Date.now() advances between two events
p_ClockTick ==
  /\ ~Opening
  /\ now < MaxPersonaTicks * TickMs
  /\ now' = now + TickMs
  /\ UNCHANGED <<events, funnelData, lastCalls, storageVars, analyticsVars,
                 trackerVars, personaVars, elseVars, apiVars, api_signals, signals>>

\* the state after "new PersonaAnalyzer()" and the host's definePersona calls
InitPersonas ==
  /\ users = <<>>
  /\ segments = [pid \in PersonaIds |->
                   [users |-> {}, metrics |-> initializePersonaMetrics]]
  /\ p_ingests = 0
  /\ p_opening = 0
  /\ p_last = [userId |-> "none", type |-> "none", before |-> {}]

\* the interval of startAutoSegmentation only recomputes the segment metrics
\* that analyzeUserPersona has just written
NextPersonas ==
  \/ OpeningEvent
  \/ \E userId \in PersonaUsers, e \in PersonaEvents : AddUserEvent(userId, e)
  \/ p_ClockTick

\* ============================================= one visitor's engagement
\* ------------------------------------------------------------------ bounds
\* number of page views that the visitor makes
MaxEngagementViews == 11
\* number of times the wall clock advances during the visit
MaxEngagementTicks == 3

\* milliseconds by which the wall clock advances between two events of the
\* visit: the session duration 300000 is the upper end of the range of Casual
\* User, the next ones are past it
EngagementTickMs == 300000
\* clicks that the visitor makes in a row when the visit begins: one more
\* than the clickCount threshold of Power User
EngagementClicks == 51

\* the next click of the run of clicks that opens the visit of "u1"
EngagementClick ==
  /\ p_ingests = 0
  /\ now = 0
  /\ p_opening < EngagementClicks
  /\ p_opening' = p_opening + 1
  /\ Ingest("u1", [type |-> "click", name |-> NoStr, device |-> NoObj])
  /\ UNCHANGED p_ingests

\* a page view of "u1", before or after the run of clicks
EngagementView ==
  /\ p_opening \in {0, EngagementClicks}
  /\ p_ingests < MaxEngagementViews
  /\ p_ingests' = p_ingests + 1
  /\ Ingest("u1", [type |-> "pageview", name |-> NoStr,
                   device |-> <<[userAgent |-> UaDesktop]>>])
  /\ UNCHANGED p_opening

\* the wall clock advances between two events of the visit
EngagementTick ==
  /\ p_opening \in {0, EngagementClicks}
  /\ now < MaxEngagementTicks * EngagementTickMs
  /\ now' = now + EngagementTickMs
  /\ UNCHANGED <<events, funnelData, lastCalls, storageVars, analyticsVars,
                 trackerVars, personaVars, elseVars, apiVars, api_signals, signals>>

NextEngagement == EngagementClick \/ EngagementView \/ EngagementTick

\* ======================================================= the global API
\* ------------------------------------------------------------------ bounds
\* number of calls that the host page makes to StandLog.init and defineFunnel
MaxApiCalls == 3
\* number of clicks made on the page
MaxApiSignals == 2
\* number of frames that the call stack of the engine holds
MaxStack == 4

\* the key written on the script tag and the key given by the host page
AttrKey == "key_attr"
HostKey == "key_host"

\* "!key"
KeyMissing_never(key) == FALSE

KeyMissing(key) == key \in {Undefined, NoItem, ""}

\* the listeners attached by setupTracking
TrackingListeners == {"click", "scroll", "submit", "beforeunload"}

\* the modules created by initializeModules for the config given
initializeModules(config) ==
  {"heatmaps", "personas", "dashboard", "integrations"}
    \cup (IF config.enableFunnels THEN {"funnels"} ELSE {})

\* the methods of class StandLogAnalytics named defineFunnel, in the order
\* of their definitions in the class body
ClassMethods ==
  << [name |-> "defineFunnel", line |-> 280, body |-> "register"],
     [name |-> "defineFunnel", line |-> 834, body |-> "delegate"] >>

\* this[name]: of the methods of the class with one name, the one defined
\* last is the one on the prototype
Resolve(name) ==
  LET defs == {i \in 1..Len(ClassMethods) : ClassMethods[i].name = name}
  IN ClassMethods[CHOOSE i \in defs : \A j \in defs : j <= i].body

\* the record kept by the method defined at line 280
RegisteredFunnel(id, steps) ==
  [ id |-> id,
    steps |-> [i \in 1..Len(steps) |-> [id |-> steps[i].id, order |-> i - 1]] ]

\* what the host page learns from a call
Returned(call, key, result) == [call |-> call, key |-> key, result |-> result]

\* "new StandLogAnalytics(key, config)": init() fills sessionData,
\* setupTracking captures the first page view and attaches the listeners,
\* initializeModules creates the modules
Construct(key, config) ==
  /\ sessionData' = [sessionId |-> LocalSessionId, userId |-> VisitorId,
                     anonymousId |-> AnonymousId]
  /\ sessionCreated' = FALSE
  /\ a_events' = << [id |-> 1, type |-> "pageview",
                     sessionId |-> LocalSessionId, userId |-> VisitorId] >>
  /\ a_captured' = 1
  /\ lsUser' = VisitorId
  /\ listeners' = listeners \cup TrackingListeners
  /\ modules' = initializeModules(config)
  /\ standlog' = << [key |-> key, config |-> config] >>
  /\ UNCHANGED <<a_flushes, a_net, a_unloads, lsSession>>

\* window.StandLog.init(key, config)
StandLogInit(key, config) ==
  LET script == scriptKey
      key1 == IF KeyMissing(key) /\ script # NoItem THEN script ELSE key
  IN IF KeyMissing(key1)
     THEN /\ api_log' = Append(api_log, Returned("init", key, "null"))
          /\ UNCHANGED <<analyticsVars, storageVars, listeners, modules, standlog>>
     ELSE /\ api_log' = Append(api_log, Returned("init", key, "analytics"))
          /\ Construct(key1, config)

\* the host page calls StandLog.init: it does so on a page whose script tag
\* does not carry the key (the other way of installing the script), and while
\* it holds no tracker
HostInit(key, config) ==
  /\ Len(api_log) < MaxApiCalls
  /\ scriptKey = NoItem
  /\ standlog = NoObj
  /\ StandLogInit(key, config)
  /\ UNCHANGED <<scriptKey, loaded, m_funnels, stack, api_signals, signals, funnelVars,
                 trackerVars, personaVars, elseVars>>

\* the DOMContentLoaded listener: initialises from the script tag, if it
\* carries data-standlog-id
DomContentLoaded ==
  /\ ~loaded
  /\ loaded' = TRUE
  /\ IF scriptKey # NoItem
     THEN StandLogInit(scriptKey, [enableFunnels |-> TRUE])
     ELSE UNCHANGED <<analyticsVars, storageVars, listeners, modules, standlog,
                      api_log>>
  /\ UNCHANGED <<scriptKey, m_funnels, stack, api_signals, signals, funnelVars,
                 trackerVars, personaVars, elseVars>>

\* a click on the page: the click listener, if attached, runs trackClick
PageClick ==
  /\ api_signals < MaxApiSignals
  /\ api_signals' = api_signals + 1
  /\ UNCHANGED signals
  /\ IF "click" \in listeners
     THEN addEvent("click")
     ELSE UNCHANGED <<apiVars, personaVars, elseVars, sessionData, sessionCreated,
                      a_events, a_flushes, a_net, a_captured, a_unloads,
                      funnelVars, storageVars, trackerVars>>

\* the host page calls analytics.defineFunnel(id, steps): the call enters the
\* method that this.defineFunnel resolves to
HostDefineFunnel ==
  /\ Len(api_log) < MaxApiCalls
  /\ standlog # NoObj
  /\ stack = <<>>
  /\ stack' = << Resolve("defineFunnel") >>
  /\ UNCHANGED <<scriptKey, loaded, standlog, modules, listeners, m_funnels,
                 api_log, api_signals, signals, analyticsVars, storageVars, funnelVars,
                 trackerVars, personaVars, elseVars>>

\* a call made by the frame on top of the stack: a RangeError when the stack
\* is full, which no frame catches, so that it reaches the host page
Call(callee) ==
  IF Len(stack) >= MaxStack
  THEN /\ stack' = <<>>
       /\ api_log' = Append(api_log, Returned("defineFunnel", "signup", "RangeError"))
  ELSE /\ stack' = Append(stack, callee)
       /\ UNCHANGED api_log

\* every frame returns what its callee returns: a return empties the stack
Return(result) ==
  /\ stack' = <<>>
  /\ api_log' = Append(api_log, Returned("defineFunnel", "signup", result))

\* the frame on top of the stack runs:
\*   "delegate"  return this.modules.funnels?.defineFunnel(id, steps, options)
\*   "arrow"     return this.defineFunnel(id, steps, options)
\*   "register"  this.modules.funnels.funnels.set(id, funnel); return funnel
RunFrame ==
  /\ stack # <<>>
  /\ LET top == stack[Len(stack)]
     IN CASE top = "delegate" ->
               /\ IF "funnels" \in modules THEN Call("arrow")
                  ELSE Return("undefined")
               /\ UNCHANGED m_funnels
          [] top = "arrow" ->
               /\ Call(Resolve("defineFunnel"))
               /\ UNCHANGED m_funnels
          [] top = "register" ->
               /\ m_funnels' = ("signup" :> RegisteredFunnel("signup", SignupSteps))
                                 @@ m_funnels
               /\ Return("funnel")
  /\ UNCHANGED <<scriptKey, loaded, standlog, modules, listeners, api_signals, signals,
                 analyticsVars, storageVars, funnelVars, trackerVars, personaVars, elseVars>>

\* the page before the script has run any initialisation
InitApi ==
  /\ scriptKey \in {NoItem, AttrKey}
  /\ loaded = FALSE
  /\ standlog = NoObj
  /\ modules = {}
  /\ listeners = {}
  /\ m_funnels = <<>>
  /\ stack = <<>>
  /\ api_log = <<>>
  /\ api_signals = 0
  /\ sessionData = [sessionId |-> NoItem, userId |-> NoItem, anonymousId |-> NoItem]
  /\ sessionCreated = FALSE
  /\ a_events = <<>>
  /\ a_flushes = <<>>
  /\ a_net = <<>>
  /\ a_captured = 0
  /\ a_unloads = 0

\* the page after the DOMContentLoaded listener has initialised the tracker
\* from the script tag
InitConstructed ==
  /\ scriptKey = AttrKey
  /\ loaded = TRUE
  /\ standlog = << [key |-> AttrKey, config |-> [enableFunnels |-> TRUE]] >>
  /\ modules = initializeModules([enableFunnels |-> TRUE])
  /\ listeners = TrackingListeners
  /\ m_funnels = <<>>
  /\ stack = <<>>
  /\ api_log = <<>>
  /\ api_signals = 0

NextApi ==
  \/ \E key \in {Undefined, HostKey}, enableFunnels \in BOOLEAN :
       HostInit(key, [enableFunnels |-> enableFunnels])
  \/ DomContentLoaded
  \/ PageClick
  \/ BeforeUnload
  \/ HostDefineFunnel
  \/ RunFrame

\* ======================================================= signal order
\* ------------------------------------------------------------------ bounds
\* number of signals that occur on the page
MaxSignals == 4

\* the kinds of signal that setupTracking listens to or that the host page
\* raises, and the type of the event captured for each
SignalTypes ==
  [click |-> "click", submit |-> "form_submit", custom |-> "custom",
   scroll |-> "scroll"]

\* a signal occurs: it is number Len(log) + 1 of the page
Occurs(kind) == Append(signals.log, kind)

\* a click, form-submit or custom signal: its listener (or track, for the
\* host page's custom signal) captures the event at once through addEvent
ImmediateSignal(kind) ==
  /\ kind \in {"click", "submit", "custom"}
  /\ Len(signals.log) < MaxSignals
  /\ addEvent(SignalTypes[kind])
  /\ signals' = [signals EXCEPT
                   !.log = Occurs(kind),
                   !.source = (a_captured + 1 :> Len(signals.log) + 1) @@ @]
  /\ UNCHANGED api_signals

\* a scroll signal: the listener clears the timer and sets it again, to call
\* trackScroll 100 ms later
ScrollSignal ==
  /\ Len(signals.log) < MaxSignals
  /\ signals' = [signals EXCEPT !.log = Occurs("scroll"),
                                !.timer = Len(signals.log) + 1]
  /\ UNCHANGED <<funnelVars, storageVars, analyticsVars, trackerVars, apiVars,
                 api_signals, personaVars, elseVars>>

\* the scroll timer fires: trackScroll captures the event of the scroll
\* signal that set the timer last
ScrollTimerFires ==
  /\ signals.timer # 0
  /\ addEvent(SignalTypes["scroll"])
  /\ signals' = [signals EXCEPT
                   !.timer = 0,
                   !.source = (a_captured + 1 :> signals.timer) @@ @]
  /\ UNCHANGED api_signals

\* no signal has occurred since the tracker was constructed
InitSignals == signals = [log |-> <<>>, timer |-> 0, source |-> <<>>]

NextSignals ==
  \/ \E kind \in {"click", "submit", "custom"} : ImmediateSignal(kind)
  \/ ScrollSignal
  \/ ScrollTimerFires

\* ============================================================ identity
\* ------------------------------------------------------------------ bounds
\* number of times a tracker is constructed in the tab
MaxInits == 2

\* the n-th value of `prefix_${Date.now()}_${Math.random()...}` in the tab
FreshId(n) == "id_" \o ToString(n)

\* getAnonymousId(): the item of sessionStorage, or a generated id that is
\* stored
getAnonymousId_fresh(item, fresh) == fresh

getAnonymousId(item, fresh) == IF item = NoItem THEN fresh ELSE item

\* getUserId() of the main script: the item of localStorage, or a generated
\* id that is stored
getStoredUserId(item, fresh) == IF item = NoItem THEN fresh ELSE item

\* have all sendEvents calls made so far ended
FlushesDone == \A i \in 1..Len(a_flushes) : a_flushes[i].pc = "done"

\* "new StandLogAnalytics(key)" when storage works: init() fills sessionData
\* (sessionId, userId, anonymousId are computed in this order), setupTracking
\* captures the first page view and attaches the listeners
InitWithStorage ==
  LET sessionId == FreshId(identity[1].gen + 1)
      userId == getStoredUserId(lsUser, FreshId(identity[1].gen + 2))
      anonymousId == getAnonymousId(identity[1].ss, FreshId(identity[1].gen + 3))
  IN /\ sessionData' = [sessionId |-> sessionId, userId |-> userId,
                        anonymousId |-> anonymousId]
     /\ lsUser' = userId
     /\ identity' = << [identity[1] EXCEPT !.ss = anonymousId,
                                           !.gen = @ + 3,
                                           !.inits = @ + 1,
                                           !.outcome = "fulfilled"] >>
     /\ a_events' = << [id |-> a_captured + 1, type |-> "pageview",
                        sessionId |-> sessionId, userId |-> userId] >>
     /\ a_captured' = a_captured + 1
     /\ listeners' = listeners \cup TrackingListeners
     /\ modules' = initializeModules([enableFunnels |-> TRUE])

\* "new StandLogAnalytics(key)" when every access to storage raises: the
\* constructor has set sessionData to null and events to [], init() has
\* generated the session id when getUserId throws out of it; init is async,
\* so the constructor returns and the promise of init is rejected, unhandled
InitWithoutStorage ==
  /\ sessionData' = [sessionId |-> NoItem, userId |-> NoItem,
                     anonymousId |-> NoItem]
  /\ identity' = << [identity[1] EXCEPT !.gen = @ + 1,
                                        !.inits = @ + 1,
                                        !.outcome = "rejected"] >>
  /\ a_events' = <<>>
  /\ modules' = {}
  /\ UNCHANGED <<lsUser, a_captured, listeners>>

\* the page constructs a tracker: on load, and again when the tab is
\* reloaded after the flushes of the page before have ended
IdInit ==
  /\ identity[1].inits < MaxInits
  /\ FlushesDone
  /\ IF identity[1].mode = "throws" THEN InitWithoutStorage ELSE InitWithStorage
  /\ standlog' = << [key |-> HostKey, config |-> [enableFunnels |-> TRUE]] >>
  /\ sessionCreated' = FALSE
  /\ UNCHANGED <<a_flushes, a_net, a_unloads, lsSession, scriptKey, loaded,
                 m_funnels, stack, api_log, api_signals, signals, funnelVars,
                 trackerVars, personaVars, matcher>>

\* the tab before the script runs: localStorage may hold the visitor id of
\* an earlier visit, sessionStorage is empty, and storage works or raises
InitIdentity ==
  /\ lsUser \in {NoItem, VisitorId}
  /\ lsSession = NoItem
  /\ \E mode \in {"ok", "throws"} :
       identity = << [ss |-> NoItem, mode |-> mode, gen |-> 0, inits |-> 0,
                      outcome |-> "none"] >>

NextIdentity ==
  \/ IdInit
  \/ BeforeUnload
  \/ \E i \in 1..Len(a_flushes), o \in SessionOutcomes : SessionResponse(i, o)
  \/ \E i \in 1..Len(a_flushes), o \in Outcomes : EventsResponse(i, o)

\* ------------------------------------------------------ specifications
\* FunnelAnalyzer on a page whose localStorage holds no StandLog key yet
InitF ==
  /\ InitFunnel /\ InitAnalytics /\ InitTracker /\ InitPersonas
  /\ InitConstructed
  /\ matcher = NoObj
  /\ InitSignals
  /\ identity = NoObj
  /\ dom = ButtonPage
  /\ lsSession = NoItem
  /\ lsUser = NoItem

\* the main script: getUserId stored the visitor id
InitA ==
  /\ InitFunnel /\ InitAnalytics /\ InitTracker /\ InitPersonas
  /\ InitConstructed
  /\ matcher = NoObj
  /\ InitSignals
  /\ identity = NoObj
  /\ dom = ButtonPage
  /\ lsSession = NoItem
  /\ lsUser = VisitorId

\* StandLogTracker: identifyUser stored the session id and the user id
InitT ==
  /\ InitFunnel /\ InitAnalytics /\ InitTracker /\ InitPersonas
  /\ InitConstructed
  /\ matcher = NoObj
  /\ InitSignals
  /\ identity = NoObj
  /\ dom = ButtonPage
  /\ lsSession = LocalSessionId
  /\ lsUser = VisitorId

\* StandLogTracker on the login page
InitForms ==
  /\ InitFunnel /\ InitAnalytics /\ InitTracker /\ InitPersonas
  /\ InitConstructed
  /\ matcher = NoObj
  /\ InitSignals
  /\ identity = NoObj
  /\ dom = LoginPage
  /\ lsSession = LocalSessionId
  /\ lsUser = VisitorId

SpecFunnel == InitF /\ [][NextFunnel]_vars

SpecAnalytics == InitA /\ [][NextAnalytics]_vars

SpecTracker == InitT /\ [][NextTracker]_vars

SpecForms == InitForms /\ [][NextForms]_vars

\* the main script over the initialisations made in one tab
InitI ==
  /\ InitFunnel /\ InitApi /\ InitTracker /\ InitPersonas
  /\ matcher = NoObj
  /\ signals = [log |-> <<>>, timer |-> 0, source |-> <<>>]
  /\ InitIdentity
  /\ dom = ButtonPage

SpecIdentity == InitI /\ [][NextIdentity]_vars

\* track(eventName) called by the host page before the main script has sent
\* anything
FirstBatchTrack == a_flushes = <<>> /\ Track

\* both trackers under the triggers of their flushes, on a page where the
\* main script captures nothing after its first flush and StandLogTracker
\* nothing after its first page view, and where every request succeeds
NextFlush ==
  \/ FirstBatchTrack
  \/ t_IntervalTick
  \/ t_BeforeUnload
  \/ \E i \in 1..Len(t_flushes) : t_EventsResponse(i, "ok")
  \/ BeforeUnload
  \/ \E i \in 1..Len(a_flushes) : SessionResponse(i, "ok")
  \/ \E i \in 1..Len(a_flushes) : EventsResponse(i, "ok")

SpecFlush == InitA /\ [][NextFlush]_vars

\* the main script under the signals of the page, up to the first flush
SpecSignals == InitA /\ [][NextSignals]_vars

\* FunnelAnalyzer with a funnel made of any two steps of the pool
InitM ==
  /\ InitFunnel /\ InitAnalytics /\ InitTracker /\ InitPersonas
  /\ InitConstructed
  /\ InitMatcher
  /\ InitSignals
  /\ identity = NoObj
  /\ dom = ButtonPage
  /\ lsSession = NoItem
  /\ lsUser = NoItem

SpecMatch == InitM /\ [][NextMatch]_vars

\* FunnelAnalyzer with a log short enough to be replayed in every state
NextReplay ==
  \/ \E e \in InputEvents : Len(events) < MaxReplayEvents /\ AddEvent(e)
  \/ \E s \in StoredSessions : StoreSession(s)
  \/ ClockTick

SpecReplay == InitF /\ [][NextReplay]_vars

\* the main script from the moment it is loaded until the page unloads: the
\* responses of the requests it sends are followed in SpecAnalytics
InitLoad ==
  /\ InitFunnel /\ InitApi /\ InitTracker /\ InitPersonas
  /\ matcher = NoObj
  /\ InitSignals
  /\ identity = NoObj
  /\ dom = ButtonPage
  /\ lsSession = NoItem
  /\ lsUser = NoItem

SpecApi == InitLoad /\ [][NextApi]_vars

\* PersonaAnalyzer fed by the host page
SpecPersonas == InitF /\ [][NextPersonas]_vars

\* PersonaAnalyzer over the visit of one visitor
SpecEngagement == InitF /\ [][NextEngagement]_vars

\* ------------------------------------------------------ funnel properties
FunnelSessions(fid) ==
  {funnelData[fid].sessions[k] : k \in DOMAIN funnelData[fid].sessions}

Reached(fid, stepIndex) == funnelData[fid].stats.steps[stepIndex + 1].reached

\* C1: every processStepCompletion call that raises a session's currentStep
\* raises it from k to exactly k + 1, and with allowBacktrack = false a call
\* for a step other than currentStep + 1 leaves currentStep as it was
C1_NoSkip ==
  \A i \in 1..Len(lastCalls) :
    LET c == lastCalls[i]
    IN /\ c.after > c.before => c.after = c.before + 1
       /\ (~FunnelById(c.funnelId).options.allowBacktrack
           /\ c.stepIndex # c.before + 1) => c.after = c.before

\* C1 witness: an event that matches only step 2 of the strict 3-step funnel
\* was processed for a session at -1, while another session had advanced
C1_Witness ==
  /\ \E i \in 1..Len(lastCalls) :
       /\ lastCalls[i].funnelId = "signup"
       /\ lastCalls[i].stepIndex = 2
       /\ lastCalls[i].before = -1
       /\ lastCalls[i].after = -1
  /\ \E s \in FunnelSessions("signup") : s.currentStep = 1

\* C2: reached[i] >= reached[i+1] for every funnel and adjacent step pair
C2_MonotonicShape ==
  \A fid \in FunnelIds :
    \A k \in 0..(Len(FunnelById(fid).steps) - 2) :
      Reached(fid, k) >= Reached(fid, k + 1)

\* ---------------------------------------------------- delivery properties
\* positions in net of the POST /events requests
EventsRequests(net) == {i \in 1..Len(net) : net[i].endpoint = "events"}

\* positions in net of the POST /session requests that got an ok response
SessionsCreated(net) ==
  {i \in 1..Len(net) : net[i].endpoint = "session" /\ net[i].outcome = "ok"}

\* ids of the events in the batch of the request at position i
BatchIds(net, i) == IdsOf(net[i].batch)

\* C3: when a POST /events request succeeds, exactly the events of its batch
\* leave the buffer; events captured while it was in flight stay
C3_SuccessClearsExactlyBatch ==
  [][\A f \in 1..Len(a_flushes) :
       (/\ a_flushes[f].pc = "events"
        /\ a_flushes'[f].pc = "done"
        /\ a_net'[RequestOf(a_net, "events", f)].outcome = "ok")
       => a_events' = SelectSeq(a_events,
             LAMBDA e : e.id \notin BatchIds(a_net, RequestOf(a_net, "events", f)))]_vars

\* C4: no event is included in more than one POST /events request
C4_AtMostOnce ==
  \A i, j \in EventsRequests(a_net) :
    i # j => BatchIds(a_net, i) \cap BatchIds(a_net, j) = {}

\* C5: once the 10th event has been enqueued (no interval or teardown flush
\* before), exactly one flush was made, its batch is those 10 events in
\* order, and the buffer is empty
C5_ThresholdFlush ==
  (/\ t_captured = 10
   /\ t_signals.interval = 0
   /\ t_signals.unload = 0)
  => /\ Cardinality(EventsRequests(t_net)) = 1
     /\ \A i \in EventsRequests(t_net) :
          [k \in 1..Len(t_net[i].batch) |-> t_net[i].batch[k].id]
            = [k \in 1..10 |-> k]
     /\ t_events = <<>>

\* C6: 9 events followed by the interval produce exactly one flush, of those
\* 9 events, whatever the latency or the outcome of the request
C6_IntervalFlush ==
  (/\ t_captured = 9
   /\ \E i \in EventsRequests(t_net) :
        /\ \A j \in EventsRequests(t_net) : i <= j
        /\ t_flushes[t_net[i].flush].trigger = "interval"
        /\ BatchIds(t_net, i) = 1..9)
  => Cardinality(EventsRequests(t_net)) = 1

\* C7: a batch whose transmission failed is out of the buffer and is in no
\* request issued after the failure
C7_FailedBatchDiscarded ==
  /\ IdsOf(a_events) \cap Seen(a_net).failed = {}
  /\ \A i \in EventsRequests(a_net) :
       BatchIds(a_net, i) \cap a_net[i].seen.failed = {}

\* C8: every POST /events request is issued after an ok response of
\* POST /session
C8_SessionBeforeEvents ==
  \A i \in EventsRequests(a_net) : a_net[i].seen.session # "none"

\* C9: all POST /events requests of the tab carry the same sessionId
C9_SingleSessionId ==
  \A i, j \in EventsRequests(a_net) : a_net[i].sessionId = a_net[j].sessionId

\* C10: once a POST /session response has returned an id, the tracker's
\* sessionId is that id and every POST /events request issued afterwards
\* carries it
C10_CanonicalSessionId ==
  /\ \A r \in SessionsCreated(a_net) :
       sessionData.sessionId = a_net[r].returned
  /\ \A i \in EventsRequests(a_net) :
       a_net[i].seen.session # "none"
       => a_net[i].sessionId = a_net[i].seen.session

\* C10 witness: POST /session returned an id that differs from the local
\* one, and a later flush has sent a batch
C10_Witness ==
  \E r \in SessionsCreated(a_net) :
    /\ a_net[r].returned # LocalSessionId
    /\ \E i \in EventsRequests(a_net) :
         /\ i > r
         /\ a_net[i].flush # a_net[r].flush
         /\ a_net[i].seen.session = a_net[r].returned
         /\ Len(a_net[i].batch) > 0

\* ------------------------------------------------------ capture properties
\* the current values of the password inputs of the page
PasswordValues(page) ==
  {page[i].value : i \in {k \in 1..Len(page) :
                            /\ page[k].tagName = TagInput
                            /\ InputType(page[k]) = TypePassword
                            /\ page[k].value # NoStr}}

\* the strings carried by the payload of an event
StringsOf(e) ==
  IF e.type = "click"
  THEN LET el == e.payload[1].element
       IN {el.id, el.className, el.textContent, el.selector}
          \cup {el.attributes[n] : n \in DOMAIN el.attributes}
  ELSE IF e.type = "form_submit"
  THEN {e.payload[1].form.fields[k].value :
          k \in 1..Len(e.payload[1].form.fields)}
  ELSE {}

\* C11: an event that enters the buffer carries the value of no password
\* input of the page, whatever its kind
C11_PasswordRedacted ==
  [][t_captured' > t_captured
     => \A v \in PasswordValues(dom) :
          \A str \in StringsOf(t_events'[Len(t_events')]) : ~Includes(str, v)]_vars

\* ------------------------------------------------------ persona properties
\* does every rule of the persona evaluate true on the profile
EveryRuleTrue(user, pid) ==
  \A k \in 1..Len(PersonaById(pid).rules) :
    evaluateRule(user, PersonaById(pid).rules[k])

\* C12: after every addUserEvent, a persona is in a user's list, and the user
\* in the persona's segment, exactly when every rule of the persona is true
\* on the user's profile
C12_MembershipExact ==
  /\ \A u \in DOMAIN users, pid \in PersonaIds :
       /\ pid \in IdsIn(users[u].personas) <=> EveryRuleTrue(users[u], pid)
       /\ u \in segments[pid].users <=> EveryRuleTrue(users[u], pid)
  /\ \A pid \in PersonaIds : segments[pid].users \subseteq DOMAIN users

\* C12 witness: the last addUserEvent removed a persona from the user and
\* added another
C12_Witness ==
  /\ p_last.userId \in DOMAIN users
  /\ p_last.before \ IdsIn(users[p_last.userId].personas) # {}
  /\ IdsIn(users[p_last.userId].personas) \ p_last.before # {}

\* is the user a member of the persona in the list and in the segment / in
\* either of them
MemberInBoth(u, pid) ==
  pid \in IdsIn(users[u].personas) /\ u \in segments[pid].users

MemberInEither(u, pid) ==
  pid \in IdsIn(users[u].personas) \/ u \in segments[pid].users

\* the thresholds of Power User hold for a session
PowerSession(session) ==
  session.pageViews > 10 /\ session.duration > 300000 /\ session.clicks > 50

\* C13: a user whose current session has pageViews > 10, duration > 300000
\* and clicks > 50 is a member of power_user in list and segment; a user
\* whose current session has at most 50 clicks is a member in neither
C13_PowerUser ==
  \A u \in DOMAIN users :
    LET session == users[u].currentSession[1]
    IN /\ PowerSession(session) => MemberInBoth(u, "power_user")
       /\ session.clicks <= 50 => ~MemberInEither(u, "power_user")

\* C13 witness: a user whose archived session met the three thresholds has
\* a current session with at most 50 clicks and is no member of power_user
C13_Witness ==
  \E u \in DOMAIN users :
    /\ \E k \in 1..Len(users[u].sessions) : PowerSession(users[u].sessions[k])
    /\ users[u].currentSession[1].clicks <= 50
    /\ ~MemberInEither(u, "power_user")

\* 1 when the last event given to addUserEvent has the type, else 0
LastIs(last, type) == IF last.type = type THEN 1 ELSE 0

\* C16: an event that arrives more than 30 minutes after the last activity
\* of the current session archives that session and opens a new one that
\* counts only this event; an event that arrives at most 30 minutes after
\* it is counted in the current session and leaves the history as it was
C16_SessionSplit ==
  [][(p_ingests' # p_ingests \/ p_opening' # p_opening)
       /\ p_last'.userId \in DOMAIN users
     => LET before == users[p_last'.userId]
            after == users'[p_last'.userId]
            old == before.currentSession[1]
            new == after.currentSession[1]
        IN IF now - old.lastActivity > 1800000
           THEN /\ after.sessions = Append(before.sessions, old)
                /\ new.startTime = now
                /\ new.events = 1
                /\ new.pageViews = LastIs(p_last', "pageview")
                /\ new.clicks = LastIs(p_last', "click")
                /\ new.conversions = LastIs(p_last', "custom")
                /\ new.formSubmissions = 0
           ELSE /\ after.sessions = before.sessions
                /\ new.startTime = old.startTime
                /\ new.events = old.events + 1
                /\ new.pageViews = old.pageViews + LastIs(p_last', "pageview")
                /\ new.clicks = old.clicks + LastIs(p_last', "click")
                /\ new.conversions = old.conversions + LastIs(p_last', "custom")]_vars

\* C16 witness: a session that counted an event some time after its first
\* one has been archived and a new session is open
C16_Witness ==
  \E u \in DOMAIN users :
    /\ Len(users[u].sessions) >= 1
    /\ users[u].sessions[1].events >= 2
    /\ users[u].sessions[1].duration > 0
    /\ users[u].currentSession[1].startTime > users[u].sessions[1].lastActivity

\* C17: every confidence stored in a profile is a number in 0..100
C17_ConfidenceRange ==
  \A u \in DOMAIN users :
    \A i \in 1..Len(users[u].personas) :
      LET c == users[u].personas[i].confidence
      IN c.k = "num" /\ 0 <= c.n /\ c.n <= 100 * c.d

\* C14: with enableFunnels true, every call of the public defineFunnel that
\* has ended returned the funnel to the host page, without an error raised
\* into it, and left the funnel registered under its id with the steps in
\* the order given.
C14_DefineFunnelTerminates ==
  \A i \in 1..Len(api_log) :
    (api_log[i].call = "defineFunnel" /\ "funnels" \in modules)
      => /\ api_log[i].result = "funnel"
         /\ "signup" \in DOMAIN m_funnels
         /\ Len(m_funnels["signup"].steps) = Len(SignupSteps)
         /\ \A k \in 1..Len(SignupSteps) :
              /\ m_funnels["signup"].steps[k].id = SignupSteps[k].id
              /\ m_funnels["signup"].steps[k].order = k - 1

\* the calls of StandLog.init made so far were all made without a key
OnlyKeylessInit ==
  /\ \E i \in 1..Len(api_log) : api_log[i].call = "init"
  /\ \A i \in 1..Len(api_log) :
       api_log[i].call = "init" => api_log[i].key = Undefined

\* C18: when the script tag has no data-standlog-id and StandLog.init has
\* been called without a key only, every such call returned null, no tracker
\* is constructed, no listener is attached, no event is buffered and no
\* request has been issued.
C18_Inert ==
  (scriptKey = NoItem /\ OnlyKeylessInit)
    => /\ \A i \in 1..Len(api_log) : api_log[i].result = "null"
       /\ standlog = NoObj
       /\ modules = {}
       /\ listeners = {}
       /\ a_events = <<>>
       /\ a_captured = 0
       /\ a_flushes = <<>>
       /\ a_net = <<>>

\* init was called without a key on a page without the attribute, then the
\* page finished loading and the visitor clicked on it
C18_Witness ==
  /\ scriptKey = NoItem
  /\ OnlyKeylessInit
  /\ loaded
  /\ api_signals = MaxApiSignals
  /\ a_events = <<>>

\* this.funnelData of a freshly constructed FunnelAnalyzer after the
\* defineFunnel calls
FreshFunnelData ==
  [fid \in FunnelIds |->
     [sessions |-> <<>>,
      stats |-> initializeFunnelStats(Len(FunnelById(fid).steps))]]

RECURSIVE Replay(_, _, _, _)
\* checkFunnelStep of one funnel for the events i.. of a sequence, in order,
\* from the funnel's entry of funnelData (analyzeEvent treats the funnels
\* one by one, none reads the data of another)
Replay(funnel, evs, i, entry) ==
  IF i > Len(evs) THEN entry
  ELSE Replay(funnel, evs, i + 1, checkFunnelStep(funnel, entry, evs[i]).entry)

\* C15: the statistics and the per-session states of a FunnelAnalyzer are
\* those that a freshly constructed instance with the same funnels has after
\* the same sequence of events (types, urls, names, timestamps, session
\* ids), so that two instances fed one sequence end in the same state.
C15_ReplayDeterminism ==
  \A fid \in FunnelIds :
    funnelData[fid] = Replay(FunnelById(fid), events, 1, FreshFunnelData[fid])

\* a replay later than the run it repeats: the log holds events of two
\* sessions and a funnel was completed
C15_Witness ==
  /\ Len(events) = MaxReplayEvents
  /\ \E i, j \in 1..Len(events) : events[i].sessionId # events[j].sessionId
  /\ events[Len(events)].timestamp < now
  /\ \E fid \in FunnelIds : funnelData[fid].stats.completedSessions > 0

\* is the call one for a match out of order: any step but the next for a
\* funnel without backtracking, a step beyond the next for one with it
OutOfOrder(c) ==
  IF FunnelById(c.funnelId).options.allowBacktrack
  THEN c.stepIndex > c.before + 1
  ELSE c.stepIndex # c.before + 1

\* C19: a processStepCompletion call for a match out of order leaves the
\* session's currentStep, completedSteps and status and the funnel's
\* statistics (reached, totalSessions, completedSessions, rates) unchanged.
C19_OutOfOrderIgnored ==
  \A k \in 1..Len(lastCalls) :
    LET c == lastCalls[k]
    IN OutOfOrder(c)
         => /\ c.session1.currentStep = c.session0.currentStep
            /\ c.session1.completedSteps = c.session0.completedSteps
            /\ c.session1.status = c.session0.status
            /\ c.stats1 = c.stats0

\* the last event matched a step behind the current one of a funnel without
\* backtracking, in a session that had advanced, and a step beyond the next
\* one of a funnel with backtracking
C19_Witness ==
  /\ \E k \in 1..Len(lastCalls) :
       /\ ~FunnelById(lastCalls[k].funnelId).options.allowBacktrack
       /\ lastCalls[k].stepIndex <= lastCalls[k].before
       /\ lastCalls[k].before >= 1
  /\ \E k \in 1..Len(lastCalls) :
       /\ FunnelById(lastCalls[k].funnelId).options.allowBacktrack
       /\ lastCalls[k].stepIndex > lastCalls[k].before + 1

\* C20: for a funnel with allowBacktrack, a processStepCompletion call for a
\* match of step j <= currentStep sets currentStep to j and leaves the
\* session's completedSteps and the funnel's statistics unchanged.
C20_BacktrackFrame ==
  \A k \in 1..Len(lastCalls) :
    LET c == lastCalls[k]
    IN (FunnelById(c.funnelId).options.allowBacktrack /\ c.stepIndex <= c.before)
         => /\ c.session1.currentStep = c.stepIndex
            /\ c.session1.completedSteps = c.session0.completedSteps
            /\ c.stats1 = c.stats0

\* the last event took a session that had completed two steps back to the
\* first step
C20_Witness ==
  \E k \in 1..Len(lastCalls) :
    /\ FunnelById(lastCalls[k].funnelId).options.allowBacktrack
    /\ lastCalls[k].stepIndex < lastCalls[k].before
    /\ Len(lastCalls[k].session0.completedSteps) >= 2
    /\ lastCalls[k].session1.currentStep = lastCalls[k].stepIndex

\* the sessions of a funnel that have completed step stepIndex
SessionsThrough(fid, stepIndex) ==
  {s \in FunnelSessions(fid) :
     \E i \in 1..Len(s.completedSteps) : s.completedSteps[i].stepIndex = stepIndex}

\* C21: for every funnel and step k, reached[k] is the number of distinct
\* sessions that have completed step k, so that a session that backtracks and
\* advances through step k again is counted once.
C21_NoDoubleCount ==
  \A fid \in FunnelIds :
    \A k \in 0..(Len(FunnelById(fid).steps) - 1) :
      Reached(fid, k) = Cardinality(SessionsThrough(fid, k))

\* is the rate kept as the pair r the quotient a / b (as a percentage)
RateIs(r, a, b) == r[2] # 0 /\ r[1] * b = a * r[2]

\* C22: for every funnel, for every step k >= 1 with reached[k-1] > 0,
\* conversionFromPrevious of step k is reached[k] / reached[k-1], and with
\* totalSessions > 0 conversionRate is completedSessions / totalSessions.
C22_RatesNeverStale ==
  \A fid \in FunnelIds :
    LET stats == funnelData[fid].stats
    IN /\ \A k \in 1..(Len(FunnelById(fid).steps) - 1) :
            Reached(fid, k - 1) > 0
              => RateIs(stats.steps[k + 1].conversionFromPrevious,
                        Reached(fid, k), Reached(fid, k - 1))
       /\ stats.totalSessions > 0
            => RateIs(stats.conversionRate, stats.completedSessions,
                      stats.totalSessions)

\* is one of the predicates configured on the step satisfied by the event
SomePredicateHolds(event, step) ==
  \/ /\ step.url # NoStr /\ event.type = "pageview" /\ event.url # NoStr
     /\ urlMatches(event.url, step.url)
  \/ /\ step.event # Undefined
     /\ \/ (event.type = "custom" /\ event.name = step.event)
        \/ event.type = step.event
  \/ /\ step.selector # NoStr /\ event.type = "click"
     /\ elementMatchesSelector(event.element, step.selector)

\* the step of the analyzer's funnels named by a pair <<funnel id, index>>
MatcherStep(pair) ==
  LET f == CHOOSE i \in 1..Len(matcher[1].funnels) :
             matcher[1].funnels[i].id = pair[1]
  IN matcher[1].funnels[f].steps[pair[2] + 1]

\* C23: eventMatchesStep returned true for a step and the last event exactly
\* when one of the predicates configured on the step (url, event, selector)
\* is satisfied by the event.
C23_MatchIsDisjunction ==
  matcher # NoObj =>
    \A pair \in matcher[1].last.evaluated :
      (pair \in matcher[1].last.matched)
        <=> SomePredicateHolds(matcher[1].last.event, MatcherStep(pair))

\* C24: the last addEvent call returned normally, with every step of every
\* funnel evaluated for the event.
C24_MalformedNeverRaises ==
  (matcher # NoObj /\ matcher[1].events # <<>>) =>
    /\ ~matcher[1].last.threw
    /\ \A f \in 1..Len(matcher[1].funnels) :
         \A i \in 1..Len(matcher[1].funnels[f].steps) :
           <<matcher[1].funnels[f].id, i - 1>> \in matcher[1].last.evaluated

\* are the events of every POST /events request of net in the order of
\* their capture, each once
BatchesInCaptureOrder(net) ==
  \A r \in EventsRequests(net) :
    \A j, k \in 1..Len(net[r].batch) :
      j < k => net[r].batch[j].id < net[r].batch[k].id

\* C25: the events in the payload of every POST /events request are in the
\* order in which addEvent enqueued them, none twice in one batch.
C25_BatchOrder == BatchesInCaptureOrder(a_net) /\ BatchesInCaptureOrder(t_net)

\* two POST /events requests were issued, the second with a batch of several
\* events, one of them captured after the first request was issued
C25_Witness ==
  \E r1, r2 \in EventsRequests(a_net) :
    /\ r1 < r2
    /\ Len(a_net[r2].batch) >= 2
    /\ \E k \in 1..Len(a_net[r2].batch) :
         a_net[r2].batch[k].id \notin BatchIds(a_net, r1)

\* positions in net of the POST /session requests
SessionRequests(net) == {i \in 1..Len(net) : net[i].endpoint = "session"}

\* C26: no POST /session request is in flight together with another one, and
\* none is issued after a POST /session response has returned the session.
C26_SessionCreatedOnce ==
  /\ Cardinality({i \in SessionRequests(a_net) : a_net[i].outcome = "pending"}) <= 1
  /\ \A i \in SessionRequests(a_net) : a_net[i].seen.session = "none"

\* C27: when the beforeunload listener runs with a non-empty buffer, its
\* sendEvents call does not wait for a response: it is at the POST /events
\* request, or a microtask away from it, when the listener returns, and the
\* request carries the buffered events with keepalive.
C27_TeardownFlush ==
  [][(a_unloads' = a_unloads + 1 /\ a_events # <<>>)
       => /\ Len(a_flushes') = Len(a_flushes) + 1
          /\ a_flushes'[Len(a_flushes')].keepalive
          /\ a_flushes'[Len(a_flushes')].pc \in {"microtask", "events"}]_vars

\* C28: the events that signals have put into the buffer are in the order
\* in which their signals occurred.
C28_SignalOrder ==
  \A i, j \in 1..Len(a_events) :
    (/\ i < j
     /\ a_events[i].id \in DOMAIN signals.source
     /\ a_events[j].id \in DOMAIN signals.source)
      => signals.source[a_events[i].id] < signals.source[a_events[j].id]

\* does this step adopt the id returned by an ok response to POST /session
AdoptsReturnedId ==
  \E i \in 1..Len(a_flushes) :
    /\ a_flushes[i].pc = "session"
    /\ a_flushes'[i].pc = "events"
    /\ sessionCreated'
    /\ sessionData'.sessionId = ServerSessionId(sessionData.anonymousId)
    /\ lsSession' = sessionData'.sessionId

\* C29: once an initialisation has set it, the anonymousId of the tracker
\* never changes in the tab, a second initialisation in the tab included, and
\* between initialisations the sessionId changes only in a step that adopts
\* the id returned by a successful POST /session
C29_IdentityStable ==
  [][ /\ (sessionData.anonymousId # NoItem
           => sessionData'.anonymousId = sessionData.anonymousId)
      /\ (/\ identity'[1].inits = identity[1].inits
          /\ sessionData'.sessionId # sessionData.sessionId
          => AdoptsReturnedId) ]_vars

\* a second initialisation in a tab whose first tracker adopted a server id
C29_Witness ==
  /\ identity[1].inits = 2
  /\ identity[1].outcome = "fulfilled"
  /\ lsSession = ServerSessionId(sessionData.anonymousId)
  /\ sessionData.anonymousId = identity[1].ss
  /\ sessionData.sessionId # lsSession

\* C30: after an initialisation, whatever storage does, the tracker holds a
\* visitor id, an anonymous id and a session id, its listeners are attached
\* and init has not ended in an error
C30_IdentityRecovered ==
  identity[1].inits > 0 =>
    /\ sessionData.userId # NoItem
    /\ sessionData.anonymousId # NoItem
    /\ sessionData.sessionId # NoItem
    /\ TrackingListeners \subseteq listeners
    /\ identity[1].outcome # "rejected"

\* the processStepCompletion calls of the step just taken that were made for
\* the funnel fid, in order
CallsFor(calls, fid) ==
  LET Mine(c) == c.funnelId = fid
  IN SelectSeq(calls, Mine)

\* does the step just taken change the statistics of funnel fid and the
\* progress of its session sid only through the calls made for fid: each
\* call starts from what the call before it for the same funnel left, the
\* first from the entry of the funnel before the event
OwnCallsOnly(fid, sid) ==
  LET cs == CallsFor(lastCalls', fid)
      before == IF sid \in DOMAIN funnelData[fid].sessions
                THEN funnelData[fid].sessions[sid]
                ELSE [currentStep |-> -1, completedSteps |-> <<>>,
                      status |-> "active"]
      after == funnelData'[fid].sessions[sid]
      Progress(x) == <<x.currentStep, x.completedSteps, x.status>>
  IN IF cs = <<>>
     THEN /\ funnelData'[fid].stats = funnelData[fid].stats
          /\ Progress(after) = Progress(before)
     ELSE /\ cs[1].stats0 = funnelData[fid].stats
          /\ Progress(cs[1].session0) = Progress(before)
          /\ \A k \in 1..(Len(cs) - 1) :
               /\ cs[k + 1].stats0 = cs[k].stats1
               /\ Progress(cs[k + 1].session0) = Progress(cs[k].session1)
          /\ cs[Len(cs)].stats1 = funnelData'[fid].stats
          /\ Progress(cs[Len(cs)].session1) = Progress(after)
          /\ \A k \in 1..Len(cs) :
               /\ cs[k].sessionId = sid
               /\ cs[k].stepIndex < Len(FunnelById(fid).steps)

\* C31: funnelData holds one session state per funnel and session id; an
\* addEvent call for session s leaves the state of every other session of
\* every funnel as it was, and changes the statistics of a funnel and the
\* progress of s in it only through the matches of that funnel's own steps.
C31_SessionIsolation ==
  [][ Len(events') = Len(events) + 1 =>
        LET s == events'[Len(events')].sessionId
        IN \A fid \in FunnelIds :
             /\ DOMAIN funnelData'[fid].sessions
                  = DOMAIN funnelData[fid].sessions \cup {s}
             /\ \A sid \in DOMAIN funnelData'[fid].sessions :
                  funnelData'[fid].sessions[sid].sessionId = sid
             /\ \A sid \in DOMAIN funnelData[fid].sessions \ {s} :
                  funnelData'[fid].sessions[sid] = funnelData[fid].sessions[sid]
             /\ OwnCallsOnly(fid, s) ]_vars

\* two sessions at different steps of one funnel, the last event having
\* advanced one of them
C31_Witness ==
  /\ Len(events) >= 3
  /\ \E fid \in FunnelIds :
       /\ DOMAIN funnelData[fid].sessions = {"anonymous", LocalSessionId}
       /\ funnelData[fid].sessions["anonymous"].currentStep = 1
       /\ funnelData[fid].sessions[LocalSessionId].currentStep = 0
       /\ \E k \in 1..Len(lastCalls) :
            /\ lastCalls[k].funnelId = fid
            /\ lastCalls[k].sessionId = LocalSessionId
            /\ lastCalls[k].after = lastCalls[k].before + 1

\* C32: a processStepCompletion call for an event whose timestamp is more
\* than the funnel's timeWindow after the session's startTime leaves the
\* session's currentStep and status and the funnel's statistics unchanged.
C32_TimeWindow ==
  \A k \in 1..Len(lastCalls) :
    LET c == lastCalls[k]
        event == events[Len(events)]
    IN event.timestamp - c.session0.startTime
         > FunnelById(c.funnelId).options.timeWindow
         => /\ c.session1.currentStep = c.session0.currentStep
            /\ c.session1.status = c.session0.status
            /\ c.stats1 = c.stats0

\* C33: over the processStepCompletion calls that one addEvent call makes
\* for a funnel, the session's currentStep changes by at most one step and
\* at most one completion record is appended.
C33_OneStepPerEvent ==
  \A fid \in FunnelIds :
    LET cs == CallsFor(lastCalls, fid)
    IN cs # <<>> =>
         LET first == cs[1].session0
             last == cs[Len(cs)].session1
         IN /\ last.currentStep - first.currentStep \in {-1, 0, 1}
            /\ Len(last.completedSteps) - Len(first.completedSteps) <= 1

\* C34: for every funnel, completedSessions is at most totalSessions and at
\* most the number of sessions that have completed the funnel, and
\* standlog_funnel_complete was dispatched at most once for each session.
C34_CompletionsBounded ==
  \A fid \in FunnelIds :
    LET stats == funnelData[fid].stats
    IN /\ stats.completedSessions <= stats.totalSessions
       /\ stats.completedSessions
            <= Cardinality({s \in FunnelSessions(fid) : s.status = "completed"})
       /\ \A s \in FunnelSessions(fid) : s.completions <= 1

\* C35: all events that the FunnelAnalyzer of a tab has been given carry one
\* session key, and every funnel holds the tab's progress in one session
\* state, also when the tracker stores a session id between two events.
C35_SessionKeyContinuity ==
  /\ \A i, j \in 1..Len(events) : events[i].sessionId = events[j].sessionId
  /\ \A fid \in FunnelIds : Cardinality(DOMAIN funnelData[fid].sessions) <= 1

\* extractEventData(event): the base data of the "data" member that
\* formatEventForAPI gives every event of a payload
extractEventData(event) == [sessionId |-> event.sessionId, userId |-> event.userId]

\* C36: in every POST /events request of the main script, the data.sessionId
\* of each event of the batch is the sessionId of the request.
C36_PayloadSessionConsistent ==
  \A i \in EventsRequests(a_net) :
    \A k \in 1..Len(a_net[i].batch) :
      extractEventData(a_net[i].batch[k]).sessionId = a_net[i].sessionId

\* are the personas lists of the profiles and the user sets of the segments
\* two views of one membership relation, without repetition
MembershipConsistent(profiles, segs) ==
  /\ \A u \in DOMAIN profiles, pid \in PersonaIds :
       u \in segs[pid].users <=> pid \in IdsIn(profiles[u].personas)
  /\ \A pid \in PersonaIds : segs[pid].users \subseteq DOMAIN profiles
  /\ \A u \in DOMAIN profiles :
       Cardinality(IdsIn(profiles[u].personas)) = Len(profiles[u].personas)

\* C37: after every step, a user is in the user set of a persona's segment
\* exactly when the persona is in the user's personas list, no persona id is
\* in a list twice, and an addUserEvent call for a user leaves the list of
\* every other user and their membership of every segment as they were.
C37_MembershipBookkeeping ==
  [][ /\ MembershipConsistent(users', segments')
      /\ \A u \in DOMAIN users :
           u # p_last'.userId
             => /\ users'[u].personas = users[u].personas
                /\ \A pid \in PersonaIds :
                     u \in segments'[pid].users <=> u \in segments[pid].users ]_vars

\* the last addUserEvent changed the personas of its user while another user
\* is a member of a persona with rules
C37_Witness ==
  /\ p_last.userId \in DOMAIN users
  /\ p_last.before # IdsIn(users[p_last.userId].personas)
  /\ \E u \in DOMAIN users \ {p_last.userId} : MemberInBoth(u, "bouncer")

\* the built-in personas that grade engagement
EngagementPersonas == {"power_user", "casual_user", "bouncer"}

\* C38: no user is a member, in the personas list or in a segment, of more
\* than one of power_user, casual_user and bouncer.
C38_EngagementExclusive ==
  \A u \in DOMAIN users :
    Cardinality({pid \in EngagementPersonas : MemberInEither(u, pid)}) <= 1

\* the last page view made a casual user a power user
C38_Witness ==
  /\ p_last.userId \in DOMAIN users
  /\ "casual_user" \in p_last.before
  /\ MemberInBoth(p_last.userId, "power_user")
  /\ ~MemberInEither(p_last.userId, "casual_user")

\* C39: for every user, the mobile count is at most totalSessions, so that
\* the mobileSessionRatio metric is a number between 0 and 1.
C39_MobileRatioIsRatio ==
  \A u \in DOMAIN users :
    /\ MobileCount(users[u]) <= users[u].metrics.totalSessions
    /\ Le(Num(0, 1), getMobileSessionRatio(users[u], "week"))
    /\ Le(getMobileSessionRatio(users[u], "week"), Num(1, 1))

\* the flushes of StandLogTracker that a trigger started
TriggeredBy(trigger) == {i \in 1..Len(t_flushes) : t_flushes[i].trigger = trigger}

\* C40: a flush triggered while the buffer is empty, by the interval or the
\* teardown of StandLogTracker or by the teardown of the main script, issues
\* no request and changes neither the buffer, the flushes under way, the
\* capture count nor the session of the tracker.
C40_EmptyFlushNoOp ==
  [][ /\ (/\ t_events = <<>>
          /\ \/ t_signals'.interval # t_signals.interval
             \/ t_signals'.unload # t_signals.unload)
         => UNCHANGED <<t_net, t_flushes, t_events, t_captured>>
      /\ (a_events = <<>> /\ a_unloads' # a_unloads)
         => UNCHANGED <<a_net, a_flushes, a_events, a_captured, sessionData,
                        sessionCreated, lsSession>> ]_vars

\* the interval and the teardown of StandLogTracker and the teardown of the
\* main script have each come when the buffer had been emptied by a response
C40_Witness ==
  /\ t_events = <<>> /\ a_events = <<>>
  /\ a_unloads > 0
  /\ \A i \in 1..Len(a_flushes) : ~a_flushes[i].keepalive
  /\ Cardinality(TriggeredBy("interval")) < t_signals.interval
  /\ Cardinality(TriggeredBy("unload")) < t_signals.unload
  /\ t_net # <<>>
====
